---- MODULE Spec2Model ----
(***************************************************************************)
(* Blacksite: anonymous post rooms.                                        *)
(*                                                                         *)
(* SpecJoin      the join modal (validateRoomCode, joinRoom), the browser's *)
(*               localStorage, the router and RoomPage's session gate.     *)
(* SpecComments  organizeComments as a function of a flat comment list.    *)
(* SpecRoom      useRoom: posts table, change feed, loadPosts, and the     *)
(*               owner's handleDelete.                                     *)
(*                                                                         *)
(* Strings are sequences of one-character strings; a nullable column or a  *)
(* nullable state cell is NULL (the empty tuple) or <<v>>.                 *)
(***************************************************************************)
EXTENDS Integers, Sequences, FiniteSets, TLC

VARIABLES
  \* ---- backing service and clock
  now,            \* the wall clock (new Date(), now())
  rooms,          \* table public.rooms
  bans,           \* table public.bans
  \* ---- browser
  lsSession,      \* localStorage['blacksite_session'] (joinedAt, which
                  \* nothing reads, is left out)
  lsOwner,        \* localStorage['blacksite_owner_<code>'], by code
  route,          \* current route: NULL for "/", <<code>> for "/room/:code"
  \* ---- JoinRoomModal state
  open, roomCode, displayName, password, isJoining, step, roomInfo,
  req,            \* the handler that is suspended at an await, if any
  \* ---- RoomPage state
  session, sessionLoading, joinName,
  \* ---- organizeComments
  flatComments, organized,
  \* ---- useRoom
  dbPosts, dbComments, clientPosts, events, loads, isOwner,
  \* ---- generateRoomCode
  genRandom,      \* the Math.random() outcomes of this call, as indices
  genCode,        \* let code
  genI,           \* let i
  \* ---- RoomPage render
  pagePosts,      \* posts, as useRoom hands it to RoomPage
  rendered,       \* orderedPosts of the last render, if any
  \* ---- PostComposer, CommentComposer, media bucket
  pcVariant,      \* which PostComposer is mounted: "quill" or "plain"
  pcContent, pcFiles, pcIsPosting,
  pcRun,          \* the handlePost that is suspended at an await, if any
  mediaBucket,    \* objects of the storage bucket 'media'
  dbUploads,      \* table public.uploads
  postCreated,    \* number of calls of onPostCreated
  ccContent, ccIsPosting,
  ccRun,          \* the handleComment that is suspended at an await, if any
  commentCreated, \* number of calls of onCommentCreated
  \* ---- CreateRoomModal, one per creating browser
  crTitle, crIsCreating, crCreatedRoom, crRun, crStore,
  \* ---- calculateExpiry applied by handleCreate
  expOption, expNow, expPc, expiryAt, expStoredAt,
  \* ---- history of useRoom's loads (not program state)
  staleLoads

joinVars == <<now, rooms, bans, lsSession, lsOwner, route, open, roomCode,
              displayName, password, isJoining, step, roomInfo, req,
              session, sessionLoading, joinName>>
commentVars == <<flatComments, organized>>
roomVars == <<dbPosts, dbComments, clientPosts, events, loads, isOwner>>
codeVars == <<genRandom, genCode, genI>>
orderVars == <<pagePosts, rendered>>
composeVars == <<pcVariant, pcContent, pcFiles, pcIsPosting, pcRun,
                 mediaBucket, dbUploads, postCreated, ccContent,
                 ccIsPosting, ccRun, commentCreated>>
createVars == <<crTitle, crIsCreating, crCreatedRoom, crRun, crStore>>
expiryVars == <<expOption, expNow, expPc, expiryAt, expStoredAt>>
loadVars == <<staleLoads>>
vars == <<joinVars, commentVars, roomVars,
         codeVars,
         orderVars,
         composeVars,
         createVars,
         expiryVars,
         loadVars>>

NULL == <<>>
Some(v) == <<v>>
Val(o) == o[1]

\* ------------------------------------------------------------------ bounds
MaxTime == 2
MaxComments == 3
MaxCreatedAt == 2
MaxPosts == 1
MaxCommentRows == 1
MaxLoads == 1

\* ----------------------------------------------------------------- strings
Letters == {"A","B","C","D","E","F","G","H","I","J","K","L","M",
            "N","O","P","Q","R","S","T","U","V","W","X","Y","Z"}
Digits == {"0","1","2","3","4","5","6","7","8","9"}
Whitespace == {" "}

RECURSIVE TrimStart(_)
TrimStart(s) ==
  IF s # <<>> /\ Head(s) \in Whitespace THEN TrimStart(Tail(s)) ELSE s

RECURSIVE TrimEnd(_)
TrimEnd(s) ==
  IF s # <<>> /\ s[Len(s)] \in Whitespace
    THEN TrimEnd(SubSeq(s, 1, Len(s) - 1)) ELSE s

Trim(s) == TrimEnd(TrimStart(s))

Slice(s, from, to) ==
  SubSeq(s, from + 1, IF to < Len(s) THEN to ELSE Len(s))

CharCode(ch) ==
  CASE ch = " " -> 32 [] ch = "a" -> 97 [] ch = "b" -> 98
    [] ch = "o" -> 111 [] ch = "p" -> 112 [] ch = "q" -> 113
    [] ch = "x" -> 120 [] ch = "1" -> 49 [] ch = "2" -> 50
    [] OTHER -> 63

\* ------------------------------------------------------------- room-utils
RECURSIVE HashFrom(_, _)
HashFrom(h, s) ==
  IF s = <<>> THEN h
  ELSE HashFrom((h * 31 + CharCode(Head(s))) % 65521, Tail(s))

hashString(input) == HashFrom(7, input)

RoomCodePattern ==
  LET cls == Letters \cup Digits
  IN  <<cls, cls, cls, cls, {"-"}, cls, cls, cls, cls>>

isValidRoomCode_Prefix(code) ==
  /\ Len(code) >= 5
  /\ Len(code) <= Len(RoomCodePattern)
  /\ \A i \in 1..Len(code) : code[i] \in RoomCodePattern[i]

isValidRoomCode(code) ==
  /\ Len(code) = Len(RoomCodePattern)
  /\ \A i \in 1..Len(code) : code[i] \in RoomCodePattern[i]

NameMaxLen == 25

formatDisplayName(name) == Slice(Trim(name), 0, NameMaxLen)

\* isDisplayNameBanned's query, as the database evaluates it at time t:
\* bans.select('id').eq('room_id', roomId).eq('display_name', displayName)
\*     .or('expires_at.is.null,expires_at.gt.now()').limit(1)
Limit1(rows) == IF rows = {} THEN {} ELSE {CHOOSE b \in rows : TRUE}

BansQuery_NoExpiry(roomId, name, t) ==
  Limit1({b \in bans : b.room_id = roomId /\ b.display_name = name})

BansQuery(roomId, name, t) ==
  Limit1({b \in bans : /\ b.room_id = roomId
                       /\ b.display_name = name
                       /\ (b.expires_at = NULL \/ Val(b.expires_at) > t)})

\* return !error && data && data.length > 0
isDisplayNameBanned(error, data) == ~error /\ data # {}

\* ------------------------------------------------------------- JoinRoomModal
formatRoomCode(value) ==
  LET cleaned == SelectSeq(value, LAMBDA ch : ch \in Letters \cup Digits)
  IN  IF Len(cleaned) <= 4 THEN cleaned
      ELSE Slice(cleaned, 0, 4) \o <<"-">> \o Slice(cleaned, 4, 8)

\* rooms.select(...).eq('code', code).single(): the row, or NULL with an error
RoomByCode(code) ==
  LET hit == {r \in rooms : r.code = code}
  IN  IF Cardinality(hit) = 1 THEN Some(CHOOSE r \in hit : TRUE) ELSE NULL

CodeA == <<"A","B","C","D","-","1","2","3","4">>
CodeB == <<"W","X","Y","Z","-","5","6","7","8">>
CodeNone == <<"Q","R","S","T","-","9","9","9","9">>

\* what a user can put into the room-code input (before formatRoomCode)
RawCodeInputs ==
  { <<>>,
    <<"A","B","C","D","1","2","3","4">>,
    <<"a","b","A","B","C","D","-","1","2">>,
    CodeB,
    <<"Q","R","S","T","9","9","9","9","9">> }

NameInputs == { <<>>, <<"a">>, <<" ","b"," ">> }
PasswordInputs == { <<>>, <<"p">>, <<"q">> }
OwnerTokenA == <<"o","1">>
OwnerTokenB == <<"o","2">>

NoReq ==
  [pc |-> "idle", roomCode |-> <<>>, formattedName |-> <<>>,
   password |-> <<>>, roomId |-> 0, reply |-> NULL]

Outcomes == {"ok", "error", "throw"}


RouteCodes == {CodeA, CodeB, CodeNone}

RoomA ==
  [id |-> 1, code |-> CodeA, title |-> "Alpha", description |-> NULL,
   password_hash |-> NULL, expiry_at |-> Some(1),
   owner_token_hash |-> hashString(OwnerTokenA)]
RoomB ==
  [id |-> 2, code |-> CodeB, title |-> "Beta", description |-> Some("b"),
   password_hash |-> Some(hashString(<<"p">>)), expiry_at |-> NULL,
   owner_token_hash |-> hashString(OwnerTokenB)]

InitBans ==
  { [room_id |-> 2, display_name |-> <<"a">>, expires_at |-> Some(1)],
    [room_id |-> 2, display_name |-> <<"b">>, expires_at |-> NULL],
    [room_id |-> 1, display_name |-> <<"b">>, expires_at |-> NULL] }

\* what the browser's localStorage may hold under blacksite_owner_<code>
\* when the application starts
InitOwnerStores ==
  { [c \in RouteCodes |-> NULL],
    [c \in RouteCodes |-> IF c = CodeB THEN Some(OwnerTokenB) ELSE NULL],
    [c \in RouteCodes |-> IF c = CodeB THEN Some(<<"x">>) ELSE NULL] }

ModalInitial ==
  /\ open' = FALSE
  /\ roomCode' = <<>>
  /\ displayName' = <<>>
  /\ password' = <<>>
  /\ isJoining' = FALSE
  /\ step' = "code"
  /\ roomInfo' = NULL

RoomPageInitial ==
  /\ session' = NULL
  /\ sessionLoading' = TRUE
  /\ joinName' = <<>>

InitJoin ==
  /\ now = 0
  /\ rooms = {RoomA, RoomB}
  /\ bans = InitBans
  /\ lsSession = NULL
  /\ lsOwner \in InitOwnerStores
  /\ route = NULL
  /\ open = FALSE
  /\ roomCode = <<>>
  /\ displayName = <<>>
  /\ password = <<>>
  /\ isJoining = FALSE
  /\ step = "code"
  /\ roomInfo = NULL
  /\ req = NoReq
  /\ session = NULL
  /\ sessionLoading = TRUE
  /\ joinName = <<>>
  /\ flatComments = <<>>
  /\ organized = NULL
  /\ dbPosts = <<>>
  /\ dbComments = <<>>
  /\ clientPosts = <<>>
  /\ events = <<>>
  /\ loads = <<>>
  /\ isOwner = <<>>
  /\ genRandom = <<>>
  /\ genCode = <<>>
  /\ genI = 0
  /\ pagePosts = <<>>
  /\ rendered = NULL
  /\ pcVariant = "quill"
  /\ pcContent = <<>>
  /\ pcFiles = <<>>
  /\ pcIsPosting = FALSE
  /\ pcRun = <<>>
  /\ mediaBucket = <<>>
  /\ dbUploads = <<>>
  /\ postCreated = 0
  /\ ccContent = <<>>
  /\ ccIsPosting = FALSE
  /\ ccRun = <<>>
  /\ commentCreated = 0
  /\ crTitle = <<>>
  /\ crIsCreating = <<>>
  /\ crCreatedRoom = <<>>
  /\ crRun = <<>>
  /\ crStore = <<>>
  /\ expOption = <<>>
  /\ expNow = <<>>
  /\ expPc = "idle"
  /\ expiryAt = NULL
  /\ expStoredAt = NULL
  /\ staleLoads = <<>>

otherThanJoin == <<commentVars, roomVars,
    codeVars,
    orderVars,
    composeVars,
    createVars,
    expiryVars,
    loadVars>>
dbVars == <<rooms, bans>>
storeVars == <<lsSession, lsOwner>>
modalVars == <<open, roomCode, displayName, password, isJoining, step,
               roomInfo>>
pageVars == <<session, sessionLoading, joinName>>

Tick ==
  /\ now < MaxTime
  /\ now' = now + 1
  /\ UNCHANGED <<dbVars, storeVars, route, modalVars, req,
                 pageVars>>
  /\ UNCHANGED otherThanJoin

\* Index: onJoinRoom={() => setJoinModalOpen(true)}
OpenJoinModal ==
  /\ route = NULL
  /\ ~open
  /\ open' = TRUE
  /\ UNCHANGED <<now, dbVars, storeVars, route, roomCode, displayName,
                 password, isJoining, step, roomInfo, req,
                 pageVars>>
  /\ UNCHANGED otherThanJoin

\* <Dialog onOpenChange={resetModal}>: the user dismisses the dialog
resetModal ==
  /\ route = NULL
  /\ open
  /\ roomCode' = <<>>
  /\ displayName' = <<>>
  /\ password' = <<>>
  /\ step' = "code"
  /\ roomInfo' = NULL
  /\ open' = FALSE
  /\ UNCHANGED <<now, dbVars, storeVars, route, isJoining, req,
                 pageVars>>
  /\ UNCHANGED otherThanJoin

handleRoomCodeChange(value) ==
  /\ route = NULL
  /\ open
  /\ step = "code"
  /\ roomCode' = formatRoomCode(value)
  /\ UNCHANGED <<now, dbVars, storeVars, route, open, displayName, password,
                 isJoining, step, roomInfo, req, pageVars>>
  /\ UNCHANGED otherThanJoin

setDisplayName(value) ==
  /\ route = NULL
  /\ open
  /\ step = "details"
  /\ roomInfo # NULL
  /\ displayName' = value
  /\ UNCHANGED <<now, dbVars, storeVars, route, open, roomCode, password,
                 isJoining, step, roomInfo, req, pageVars>>
  /\ UNCHANGED otherThanJoin

setPassword(value) ==
  /\ route = NULL
  /\ open
  /\ step = "details"
  /\ roomInfo # NULL
  /\ Val(roomInfo).requiresPassword
  /\ password' = value
  /\ UNCHANGED <<now, dbVars, storeVars, route, open, roomCode, displayName,
                 isJoining, step, roomInfo, req, pageVars>>
  /\ UNCHANGED otherThanJoin

\* the Back button: onClick={() => setStep('code')}
Back ==
  /\ route = NULL
  /\ open
  /\ step = "details"
  /\ roomInfo # NULL
  /\ step' = "code"
  /\ UNCHANGED <<now, dbVars, storeVars, route, open, roomCode, displayName,
                 password, isJoining, roomInfo, req, pageVars>>
  /\ UNCHANGED otherThanJoin

\* validateRoomCode up to its await
validateRoomCode ==
  /\ route = NULL
  /\ open
  /\ step = "code"
  /\ ~isJoining
  /\ IF Trim(roomCode) = <<>>
       THEN /\ UNCHANGED <<isJoining, req>>
     ELSE IF ~isValidRoomCode(roomCode)
       THEN /\ UNCHANGED <<isJoining, req>>
     ELSE /\ isJoining' = TRUE
          /\ req' = [NoReq EXCEPT !.pc = "validate", !.roomCode = roomCode]
  /\ UNCHANGED <<now, dbVars, storeVars, route, open, roomCode, displayName,
                 password, step, roomInfo, pageVars>>
  /\ UNCHANGED otherThanJoin

\* validateRoomCode from the answer of rooms.select(...).single() on
validateRoomCodeResponse(outcome) ==
  /\ req.pc = "validate"
  /\ LET roomData == RoomByCode(req.roomCode)
     IN  IF outcome = "throw"
           THEN /\ UNCHANGED <<roomInfo, step>>
         ELSE IF outcome = "error" \/ roomData = NULL
           THEN /\ UNCHANGED <<roomInfo, step>>
         ELSE IF /\ Val(roomData).expiry_at # NULL
                 /\ Val(Val(roomData).expiry_at) < now
           THEN /\ UNCHANGED <<roomInfo, step>>
         ELSE /\ roomInfo' =
                   Some([title |-> Val(roomData).title,
                         description |-> Val(roomData).description,
                         requiresPassword |->
                            Val(roomData).password_hash # NULL])
              /\ step' = "details"
  /\ isJoining' = FALSE
  /\ req' = NoReq
  /\ UNCHANGED <<now, dbVars, storeVars, route, open, roomCode, displayName,
                 password, pageVars>>
  /\ UNCHANGED otherThanJoin

\* RoomPage's "load session from localStorage" effect for route /room/<code>,
\* given the session state it starts from
SessionLoadEffect(code, stored, ownerStore, prev) ==
  IF stored # NULL /\ Val(stored).roomCode = code
    THEN LET ownerData == ownerStore[code]
             truthy == ownerData # NULL /\ Val(ownerData) # <<>>
         IN  Some([displayName |-> Val(stored).displayName,
                   isOwner |-> truthy,
                   ownerToken |-> IF truthy THEN ownerData ELSE NULL])
    ELSE prev

\* joinRoom up to its first await
joinRoom ==
  /\ route = NULL
  /\ open
  /\ step = "details"
  /\ roomInfo # NULL
  /\ ~isJoining
  /\ LET formattedName == formatDisplayName(displayName)
     IN  IF formattedName = <<>>
           THEN /\ UNCHANGED <<isJoining, req>>
         ELSE IF Val(roomInfo).requiresPassword /\ Trim(password) = <<>>
           THEN /\ UNCHANGED <<isJoining, req>>
         ELSE /\ isJoining' = TRUE
              /\ req' = [NoReq EXCEPT !.pc = "joinRoom",
                                      !.roomCode = roomCode,
                                      !.formattedName = formattedName,
                                      !.password = password]
  /\ UNCHANGED <<now, dbVars, storeVars, route, open, roomCode, displayName,
                 password, step, roomInfo, pageVars>>
  /\ UNCHANGED otherThanJoin

\* if (roomData.password_hash && password) { hash !== password_hash }
PasswordCheckFails(roomData, pw) ==
  /\ roomData.password_hash # NULL
  /\ pw # <<>>
  /\ hashString(pw) # Val(roomData.password_hash)

\* joinRoom from the answer of rooms.select('id, password_hash') to the
\* await of isDisplayNameBanned
joinRoomResponse(outcome) ==
  /\ req.pc = "joinRoom"
  /\ LET roomData == RoomByCode(req.roomCode)
     IN  IF outcome = "throw"
           THEN /\ isJoining' = FALSE
                /\ req' = NoReq
         ELSE IF outcome = "error" \/ roomData = NULL
           THEN /\ isJoining' = FALSE
                /\ req' = NoReq
         ELSE IF PasswordCheckFails(Val(roomData), req.password)
           THEN /\ isJoining' = FALSE
                /\ req' = NoReq
         ELSE /\ req' = [req EXCEPT !.pc = "joinBan",
                                    !.roomId = Val(roomData).id]
              /\ UNCHANGED isJoining
  /\ UNCHANGED <<now, dbVars, storeVars, route, open, roomCode, displayName,
                 password, step, roomInfo, pageVars>>
  /\ UNCHANGED otherThanJoin

\* the database answers isDisplayNameBanned's query (or the request fails)
bansSelect(outcome) ==
  /\ req.pc = "joinBan"
  /\ req.reply = NULL
  /\ req' = [req EXCEPT !.reply =
               Some([outcome |-> outcome,
                     data |-> IF outcome = "ok"
                                THEN BansQuery(req.roomId, req.formattedName,
                                               now)
                                ELSE {},
                     at |-> now])]
  /\ UNCHANGED <<now, dbVars, storeVars, route, modalVars, pageVars>>
  /\ UNCHANGED otherThanJoin

\* joinRoom from the answer of the bans query to its end; onJoinSuccess is
\* Index.handleJoinSuccess, which navigates to /room/<code> and so mounts
\* RoomPage
joinRoomBanResponse ==
  /\ req.pc = "joinBan"
  /\ req.reply # NULL
  /\ LET reply == Val(req.reply)
     IN  IF reply.outcome = "throw"
           THEN /\ UNCHANGED <<storeVars, route, open, roomCode, displayName,
                               password, step, roomInfo, pageVars>>
         ELSE IF isDisplayNameBanned(reply.outcome = "error", reply.data)
           THEN /\ UNCHANGED <<storeVars, route, open, roomCode, displayName,
                               password, step, roomInfo, pageVars>>
         ELSE /\ lsSession' = Some([roomCode |-> req.roomCode,
                                    displayName |-> req.formattedName])
              /\ route' = Some(req.roomCode)
              /\ roomCode' = <<>>
              /\ displayName' = <<>>
              /\ password' = <<>>
              /\ step' = "code"
              /\ roomInfo' = NULL
              /\ open' = FALSE
              /\ session' = SessionLoadEffect(req.roomCode, lsSession',
                                              lsOwner, NULL)
              /\ sessionLoading' = FALSE
              /\ joinName' = <<>>
              /\ UNCHANGED lsOwner
  /\ isJoining' = FALSE
  /\ req' = NoReq
  /\ UNCHANGED <<now, dbVars>>
  /\ UNCHANGED otherThanJoin

\* the user opens /room/<code> (link, address bar); RoomPage mounts, or stays
\* mounted when only the code changes, and its session effect runs.  Taken
\* while no modal handler is suspended.
Navigate(code) ==
  /\ req.pc = "idle"
  /\ route # Some(code)
  /\ route' = Some(code)
  /\ ModalInitial
  /\ session' = SessionLoadEffect(code, lsSession, lsOwner,
                                  IF route = NULL THEN NULL ELSE session)
  /\ sessionLoading' = FALSE
  /\ joinName' = IF route = NULL THEN <<>> ELSE joinName
  /\ UNCHANGED <<now, dbVars, storeVars, req>>
  /\ UNCHANGED otherThanJoin

\* navigate('/'): RoomPage unmounts, Index mounts
NavigateHome ==
  /\ route # NULL
  /\ route' = NULL
  /\ RoomPageInitial
  /\ UNCHANGED <<now, dbVars, storeVars, modalVars, req>>
  /\ UNCHANGED otherThanJoin

setJoinName(value) ==
  /\ route # NULL
  /\ ~sessionLoading
  /\ session = NULL
  /\ joinName' = value
  /\ UNCHANGED <<now, dbVars, storeVars, route, modalVars, req,
                 session, sessionLoading>>
  /\ UNCHANGED otherThanJoin

\* RoomPage's inline join gate: the button's onClick
InlineJoin ==
  /\ route # NULL
  /\ ~sessionLoading
  /\ session = NULL
  /\ Trim(joinName) # <<>>
  /\ LET name == formatDisplayName(joinName)
         code == Val(route)
         ownerData == lsOwner[code]
         truthy == ownerData # NULL /\ Val(ownerData) # <<>>
     IN  /\ name # <<>>
         /\ lsSession' = Some([roomCode |-> code, displayName |-> name])
         /\ session' = Some([displayName |-> name, isOwner |-> truthy,
                             ownerToken |-> IF truthy THEN ownerData
                                            ELSE NULL])
  /\ UNCHANGED <<now, dbVars, lsOwner, route, modalVars, req, sessionLoading,
                 joinName>>
  /\ UNCHANGED otherThanJoin

NextJoin ==
  \/ Tick
  \/ OpenJoinModal
  \/ resetModal
  \/ \E value \in RawCodeInputs : handleRoomCodeChange(value)
  \/ \E value \in NameInputs : setDisplayName(value)
  \/ \E value \in PasswordInputs : setPassword(value)
  \/ Back
  \/ validateRoomCode
  \/ \E outcome \in Outcomes : validateRoomCodeResponse(outcome)
  \/ joinRoom
  \/ \E outcome \in Outcomes : joinRoomResponse(outcome)
  \/ \E outcome \in Outcomes : bansSelect(outcome)
  \/ joinRoomBanResponse
  \/ \E code \in RouteCodes : Navigate(code)
  \/ NavigateHome
  \/ \E value \in NameInputs : setJoinName(value)
  \/ InlineJoin

SpecJoin == InitJoin /\ [][NextJoin]_vars

\* ------------------------------------------------------- join-flow claims
RoomsWithCode(code) == {r \in rooms : r.code = code}
Expired(r, t) == r.expiry_at # NULL /\ Val(r.expiry_at) < t
ActiveBan(roomId, name, t) ==
  \E b \in bans : /\ b.room_id = roomId
                  /\ b.display_name = name
                  /\ (b.expires_at = NULL \/ Val(b.expires_at) > t)

\* the step in which joinRoom stores blacksite_session and calls onJoinSuccess
JoinRoomWrites ==
  /\ req.pc = "joinBan"
  /\ route = NULL
  /\ route' = Some(req.roomCode)
  /\ lsSession' = Some([roomCode |-> req.roomCode,
                        displayName |-> req.formattedName])

\* C1: joinRoom never writes blacksite_session for a room whose expiry_at is
\* earlier than the time at which the session is written.
C1_ExpiredRoomBlocksJoin ==
  [][JoinRoomWrites =>
       \A r \in RoomsWithCode(req.roomCode) : ~Expired(r, now)]_vars

C3_PasswordHashGatesJoin ==
  [][JoinRoomWrites =>
       \A r \in RoomsWithCode(req.roomCode) :
          r.password_hash # NULL =>
             hashString(req.password) = Val(r.password_hash)]_vars

WellFormedRoomCode(code) ==
  /\ Len(code) = 9
  /\ code[5] = "-"
  /\ \A i \in {1, 2, 3, 4, 6, 7, 8, 9} : code[i] \in Letters \cup Digits

\* C4: validateRoomCode issues its rooms query, and can take the modal from
\* step 'code' to step 'details', only for an entered code of the form
\* XXXX-XXXX over A-Z and 0-9; while any other code is entered no query is
\* issued, step and isJoining stay as they are and no room info is set (the
\* only change roomInfo can see is the dialog's reset to null).
C4_RoomCodeFormat ==
  [][/\ (req.pc = "idle" /\ req'.pc = "validate")
          => /\ req'.roomCode = roomCode
             /\ WellFormedRoomCode(roomCode)
     /\ (step = "code" /\ step' = "details")
          => /\ req.pc = "validate"
             /\ WellFormedRoomCode(req.roomCode)
     /\ (req.pc = "idle" /\ step = "code" /\ ~WellFormedRoomCode(roomCode))
          => /\ req'.pc # "validate"
             /\ UNCHANGED <<step, isJoining>>
             /\ roomInfo' \in {roomInfo, NULL}]_vars

\* the query went out for a well-formed code and brought the modal to
\* step 'details'
C4_Witness_Details ==
  /\ step = "details"
  /\ roomInfo # NULL
  /\ WellFormedRoomCode(roomCode)
  /\ req.pc = "idle"

\* C5: every step that stores a session for code c does so only if a room
\* with code c exists, is unexpired, had its password (if any) verified by
\* hash, and has no active ban on the chosen name.
C5_EveryEntryIsGuarded ==
  [][(lsSession' # lsSession /\ lsSession' # NULL)
     => LET s == Val(lsSession')
        IN  /\ RoomsWithCode(s.roomCode) # {}
            /\ \A r \in RoomsWithCode(s.roomCode) :
                 /\ ~Expired(r, now)
                 /\ r.password_hash # NULL =>
                      /\ req.pc = "joinBan"
                      /\ hashString(req.password) = Val(r.password_hash)
                 /\ ~ActiveBan(r.id, s.displayName, now)]_vars

\* C6: RoomPage treats the client as owner of the room of the current route
\* only if it holds a token whose hash is that room's owner_token_hash.
C6_OwnerByHash ==
  (session # NULL /\ Val(session).isOwner)
    => /\ route # NULL
       /\ \E r \in RoomsWithCode(Val(route)) :
            /\ lsOwner[r.code] # NULL
            /\ hashString(Val(lsOwner[r.code])) = r.owner_token_hash

\* ------------------------------------------------- useRoom: organizeComments
\* A comment row is [id, parent_comment_id, created_at]; the rows of one
\* select have distinct ids (primary key).  Row i of a list has id i; a
\* parent_comment_id of 0, or one beyond the list, names a row the select did
\* not return.
CommentRows(n) ==
  [1..n -> [parent_comment_id : {NULL} \cup {Some(p) : p \in 0..MaxComments},
            created_at : 1..MaxCreatedAt]]

\* the rows as the select returns them: the id of a row is its position
WithIds(f) ==
  [k \in DOMAIN f |-> [id |-> k,
                       parent_comment_id |-> f[k].parent_comment_id,
                       created_at |-> f[k].created_at]]

\* first pass: commentMap.set(comment.id, { ...comment, replies: [] })
RECURSIVE FirstPass(_, _)
FirstPass(flat, commentMap) ==
  IF flat = <<>> THEN commentMap
  ELSE LET comment == Head(flat)
           entry == [comment |-> comment, replies |-> <<>>]
       IN  FirstPass(Tail(flat),
                     [id \in DOMAIN commentMap \cup {comment.id} |->
                        IF id = comment.id THEN entry ELSE commentMap[id]])

SecondPassStep_OrphanToRoot(acc, comment) ==
  IF comment.parent_comment_id # NULL
       /\ Val(comment.parent_comment_id) \in DOMAIN acc.commentMap
    THEN [acc EXCEPT
            !.commentMap[Val(comment.parent_comment_id)].replies =
               Append(@, comment.id)]
    ELSE [acc EXCEPT !.rootComments = Append(@, comment.id)]

\* second pass, one comment: entries hold references, here the ids
SecondPassStep(acc, comment) ==
  IF comment.parent_comment_id # NULL
    THEN IF Val(comment.parent_comment_id) \in DOMAIN acc.commentMap
           THEN [acc EXCEPT
                   !.commentMap[Val(comment.parent_comment_id)].replies =
                      Append(@, comment.id)]
           ELSE acc
    ELSE [acc EXCEPT !.rootComments = Append(@, comment.id)]

RECURSIVE SecondPass(_, _)
SecondPass(flat, acc) ==
  IF flat = <<>> THEN acc
  ELSE SecondPass(Tail(flat), SecondPassStep(acc, Head(flat)))

\* (a, b) => new Date(a.created_at).getTime() - new Date(b.created_at).getTime()
CompareCreatedAt_Descending(a, b) == b.created_at - a.created_at

CompareCreatedAt(a, b) == a.created_at - b.created_at

\* Array.prototype.sort is stable: x goes behind every element it does not
\* precede
RECURSIVE InsertSorted(_, _, _)
InsertSorted(sorted, x, commentMap) ==
  IF sorted = <<>> THEN <<x>>
  ELSE IF CompareCreatedAt(commentMap[x].comment,
                           commentMap[Head(sorted)].comment) < 0
         THEN <<x>> \o sorted
         ELSE <<Head(sorted)>> \o InsertSorted(Tail(sorted), x, commentMap)

RECURSIVE SortRoots(_, _, _)
SortRoots(todo, sorted, commentMap) ==
  IF todo = <<>> THEN sorted
  ELSE SortRoots(Tail(todo), InsertSorted(sorted, Head(todo), commentMap),
                 commentMap)

\* the returned array (of references) and the objects it refers to
organizeComments(flat) ==
  LET commentMap == FirstPass(flat, <<>>)
      passed == SecondPass(flat, [commentMap |-> commentMap,
                                  rootComments |-> <<>>])
  IN  [rootComments |-> SortRoots(passed.rootComments, <<>>,
                                  passed.commentMap),
       commentMap |-> passed.commentMap]

InitComments ==
  /\ \E n \in 0..MaxComments : \E f \in CommentRows(n) :
       flatComments = WithIds(f)
  /\ organized = NULL
  /\ now = 0
  /\ rooms = {}
  /\ bans = {}
  /\ lsSession = NULL
  /\ lsOwner = <<>>
  /\ route = NULL
  /\ open = FALSE
  /\ roomCode = <<>>
  /\ displayName = <<>>
  /\ password = <<>>
  /\ isJoining = FALSE
  /\ step = "code"
  /\ roomInfo = NULL
  /\ req = NoReq
  /\ session = NULL
  /\ sessionLoading = TRUE
  /\ joinName = <<>>
  /\ dbPosts = <<>>
  /\ dbComments = <<>>
  /\ clientPosts = <<>>
  /\ events = <<>>
  /\ loads = <<>>
  /\ isOwner = <<>>
  /\ genRandom = <<>>
  /\ genCode = <<>>
  /\ genI = 0
  /\ pagePosts = <<>>
  /\ rendered = NULL
  /\ pcVariant = "quill"
  /\ pcContent = <<>>
  /\ pcFiles = <<>>
  /\ pcIsPosting = FALSE
  /\ pcRun = <<>>
  /\ mediaBucket = <<>>
  /\ dbUploads = <<>>
  /\ postCreated = 0
  /\ ccContent = <<>>
  /\ ccIsPosting = FALSE
  /\ ccRun = <<>>
  /\ commentCreated = 0
  /\ crTitle = <<>>
  /\ crIsCreating = <<>>
  /\ crCreatedRoom = <<>>
  /\ crRun = <<>>
  /\ crStore = <<>>
  /\ expOption = <<>>
  /\ expNow = <<>>
  /\ expPc = "idle"
  /\ expiryAt = NULL
  /\ expStoredAt = NULL
  /\ staleLoads = <<>>

otherThanComments == <<joinVars, roomVars,
    codeVars,
    orderVars,
    composeVars,
    createVars,
    expiryVars,
    loadVars>>

\* loadPosts: comments: organizeComments(post.comments || [])
OrganizeComments ==
  /\ organized = NULL
  /\ organized' = Some(organizeComments(flatComments))
  /\ UNCHANGED flatComments
  /\ UNCHANGED otherThanComments

NextComments == OrganizeComments

SpecComments == InitComments /\ [][NextComments]_vars

\* ---------------------------------------------------------- comment claims
Count(seq, x) == Cardinality({i \in 1..Len(seq) : seq[i] = x})
FlatIds == {flatComments[i].id : i \in 1..Len(flatComments)}
Row(id) == flatComments[CHOOSE i \in 1..Len(flatComments) :
                          flatComments[i].id = id]
HasParent(c) == c.parent_comment_id # NULL
RootsOut == Val(organized).rootComments
RepliesOut(id) == Val(organized).commentMap[id].replies

\* C7: the top-level entries are exactly the comments without a
\* parent_comment_id, each once, in ascending created_at order.
C7_TopLevel ==
  organized # NULL =>
    /\ \A id \in FlatIds : Count(RootsOut, id) = IF HasParent(Row(id)) THEN 0
                                                ELSE 1
    /\ \A i \in 1..Len(RootsOut) : RootsOut[i] \in FlatIds
    /\ \A i, j \in 1..Len(RootsOut) :
         i < j => Row(RootsOut[i]).created_at <= Row(RootsOut[j]).created_at

\* two roots given newest first, and a reply among the rows
C7_Witness_Reordered ==
  /\ organized # NULL
  /\ Len(flatComments) = 3
  /\ ~HasParent(flatComments[1])
  /\ ~HasParent(flatComments[3])
  /\ HasParent(flatComments[2])
  /\ flatComments[1].created_at > flatComments[3].created_at
  /\ RootsOut = <<3, 1>>

\* C8: a comment whose parent is in the list is once in that parent's
\* replies, in input order, and nowhere else; a comment whose parent is not
\* in the list is nowhere; no comment occurs twice.
C8_Replies ==
  organized # NULL =>
    \A id \in FlatIds :
      LET c == Row(id)
          inReplies == {p \in FlatIds : Count(RepliesOut(p), id) > 0}
      IN  /\ Count(RootsOut, id)
               + Cardinality({p \in FlatIds : Count(RepliesOut(p), id) > 0})
               <= 1
          /\ \A p \in FlatIds : Count(RepliesOut(p), id) <= 1
          /\ (HasParent(c) /\ Val(c.parent_comment_id) \in FlatIds)
               => inReplies = {Val(c.parent_comment_id)}
          /\ (HasParent(c) /\ Val(c.parent_comment_id) \notin FlatIds)
               => inReplies = {} /\ Count(RootsOut, id) = 0
          /\ \A i, j \in 1..Len(RepliesOut(id)) :
               i < j => RepliesOut(id)[i] < RepliesOut(id)[j]

\* a parent with two replies next to a comment whose parent was not returned
C8_Witness_RepliesAndOrphan ==
  /\ organized # NULL
  /\ \E p \in FlatIds : Len(RepliesOut(p)) = 2
  /\ \E id \in FlatIds : /\ HasParent(Row(id))
                         /\ Val(Row(id).parent_comment_id) \notin FlatIds

\* C9: every entry of a top-level comment's replies has itself no replies.
C9_SingleLevel ==
  organized # NULL =>
    \A i \in 1..Len(RootsOut) :
      \A j \in 1..Len(RepliesOut(RootsOut[i])) :
        RepliesOut(RepliesOut(RootsOut[i])[j]) = <<>>

\* ------------------------------------------------------------------ useRoom
\* Two browsers show the same room: the creator's (session.isOwner) and a
\* participant's.  Each has loaded the room, subscribed to the change feed
\* and has its first loadPosts outstanding.
Clients == {"owner", "viewer"}

otherThanRoom == <<joinVars, commentVars,
    codeVars,
    orderVars,
    composeVars,
    createVars,
    expiryVars>>

InitRoom ==
  /\ dbPosts = <<>>
  /\ dbComments = <<>>
  /\ clientPosts = [c \in Clients |-> <<>>]
  /\ events = [c \in Clients |-> <<>>]
  /\ loads = [c \in Clients |-> <<[result |-> NULL]>>]
  /\ isOwner = [c \in Clients |-> c = "owner"]
  /\ now = 0
  /\ rooms = {}
  /\ bans = {}
  /\ lsSession = NULL
  /\ lsOwner = <<>>
  /\ route = NULL
  /\ open = FALSE
  /\ roomCode = <<>>
  /\ displayName = <<>>
  /\ password = <<>>
  /\ isJoining = FALSE
  /\ step = "code"
  /\ roomInfo = NULL
  /\ req = NoReq
  /\ session = NULL
  /\ sessionLoading = TRUE
  /\ joinName = <<>>
  /\ flatComments = <<>>
  /\ organized = NULL
  /\ genRandom = <<>>
  /\ genCode = <<>>
  /\ genI = 0
  /\ pagePosts = <<>>
  /\ rendered = NULL
  /\ pcVariant = "quill"
  /\ pcContent = <<>>
  /\ pcFiles = <<>>
  /\ pcIsPosting = FALSE
  /\ pcRun = <<>>
  /\ mediaBucket = <<>>
  /\ dbUploads = <<>>
  /\ postCreated = 0
  /\ ccContent = <<>>
  /\ ccIsPosting = FALSE
  /\ ccRun = <<>>
  /\ commentCreated = 0
  /\ crTitle = <<>>
  /\ crIsCreating = <<>>
  /\ crCreatedRoom = <<>>
  /\ crRun = <<>>
  /\ crStore = <<>>
  /\ expOption = <<>>
  /\ expNow = <<>>
  /\ expPc = "idle"
  /\ expiryAt = NULL
  /\ expStoredAt = NULL
  /\ staleLoads = [c \in Clients |-> 0]

Reverse(seq) == [i \in 1..Len(seq) |-> seq[Len(seq) + 1 - i]]
RemoveAt(seq, i) == SubSeq(seq, 1, i - 1) \o SubSeq(seq, i + 1, Len(seq))
PostIds(posts) == {posts[i].id : i \in 1..Len(posts)}

\* the embedded comments:comments(*) of one post, as flat rows
CommentsOf(postId) ==
  LET rows == SelectSeq(dbComments, LAMBDA r : r.post_id = postId)
  IN  [i \in 1..Len(rows) |->
         [id |-> rows[i].id, parent_comment_id |-> rows[i].parent_comment_id,
          created_at |-> rows[i].created_at]]

\* posts.select('*, comments:comments(*)').eq('room_id', roomId)
\*      .is('deleted_at', null).order('created_at', { ascending: false })
\* followed by the map that adds comment_count and the nested comments
LoadPostsQuery ==
  LET visible == SelectSeq(Reverse(dbPosts), LAMBDA r : r.deleted_at = NULL)
  IN  [i \in 1..Len(visible) |->
         [id |-> visible[i].id, pinned |-> visible[i].pinned,
          comment_count |-> Len(CommentsOf(visible[i].id)),
          comments |-> organizeComments(CommentsOf(visible[i].id))
                          .rootComments]]

\* loadPosts up to its await
IssueLoad(c) == [loads EXCEPT ![c] = Append(@, [result |-> NULL])]

\* the change feed delivers an event to every subscribed client
Publish(event) == [c \in Clients |-> Append(events[c], event)]

\* PostComposer.handlePost, successful: the insert, then onPostCreated =
\* reloadPosts (a failed insert changes nothing here)
handlePost(c) ==
  /\ Len(dbPosts) < MaxPosts
  /\ Len(loads[c]) < MaxLoads
  /\ LET row == [id |-> Len(dbPosts) + 1, pinned |-> FALSE,
                 deleted_at |-> NULL, created_at |-> Len(dbPosts) + 1]
     IN  /\ dbPosts' = Append(dbPosts, row)
         /\ events' = Publish([type |-> "posts INSERT", new |-> row])
  /\ loads' = IssueLoad(c)
  /\ UNCHANGED <<dbComments, clientPosts, isOwner>>
  /\ UNCHANGED staleLoads
  /\ UNCHANGED otherThanRoom

\* CommentComposer.handleComment on a post the client shows, successful: the
\* insert, then onCommentCreated = reloadPosts
handleComment(c, postId) ==
  /\ postId \in PostIds(clientPosts[c])
  /\ Len(dbComments) < MaxCommentRows
  /\ Len(loads[c]) < MaxLoads
  /\ LET row == [id |-> Len(dbComments) + 1, post_id |-> postId,
                 parent_comment_id |-> NULL,
                 created_at |-> Len(dbComments) + 1]
     IN  /\ dbComments' = Append(dbComments, row)
         /\ events' = Publish([type |-> "comments INSERT", new |-> row])
  /\ loads' = IssueLoad(c)
  /\ UNCHANGED <<dbPosts, clientPosts, isOwner>>
  /\ UNCHANGED staleLoads
  /\ UNCHANGED otherThanRoom

\* posts.update({ pinned: true }).eq('id', postId): the rows the request can
\* see (SELECT policy: deleted_at IS NULL) with that id get pinned = true
UpdatePinned_EveryRow(postId) ==
  [k \in 1..Len(dbPosts) |->
     IF dbPosts[k].deleted_at = NULL
       THEN [dbPosts[k] EXCEPT !.pinned = TRUE]
       ELSE dbPosts[k]]

UpdatePinned(postId) ==
  [k \in 1..Len(dbPosts) |->
     IF dbPosts[k].id = postId /\ dbPosts[k].deleted_at = NULL
       THEN [dbPosts[k] EXCEPT !.pinned = TRUE]
       ELSE dbPosts[k]]

\* posts.update({ deleted_at: new Date().toISOString() }).eq('id', postId)
UpdateDeletedAt(postId) ==
  [k \in 1..Len(dbPosts) |->
     IF dbPosts[k].id = postId /\ dbPosts[k].deleted_at = NULL
       THEN [dbPosts[k] EXCEPT !.deleted_at = Some(now)]
       ELSE dbPosts[k]]

\* RoomPage.handlePin for a post the client shows: if (!session?.isOwner)
\* return; otherwise the update and, unless it failed, reloadPosts.  The
\* update is not in the subscribed events, so nothing is published.
handlePin(c, postId, outcome) ==
  /\ postId \in PostIds(clientPosts[c])
  /\ Len(loads[c]) < MaxLoads
  /\ IF isOwner[c] /\ outcome = "ok"
       THEN /\ dbPosts' = UpdatePinned(postId)
            /\ loads' = IssueLoad(c)
       ELSE UNCHANGED <<dbPosts, loads>>
  /\ UNCHANGED <<dbComments, clientPosts, events, isOwner>>
  /\ UNCHANGED staleLoads
  /\ UNCHANGED otherThanRoom

\* RoomPage.handleDelete for a post the client shows: if (!session?.isOwner)
\* return; otherwise the update and, unless it failed, reloadPosts.  The
\* update is not in the subscribed events (INSERT, DELETE), so nothing is
\* published.
handleDelete(c, postId, outcome) ==
  /\ postId \in PostIds(clientPosts[c])
  /\ Len(loads[c]) < MaxLoads
  /\ IF isOwner[c] /\ outcome = "ok"
       THEN /\ dbPosts' = UpdateDeletedAt(postId)
            /\ loads' = IssueLoad(c)
       ELSE UNCHANGED <<dbPosts, loads>>
  /\ UNCHANGED <<dbComments, clientPosts, events, isOwner>>
  /\ UNCHANGED staleLoads
  /\ UNCHANGED otherThanRoom

\* at most MaxLoads loads are issued by a client's own actions while others
\* are outstanding, and one more per comment event
LoadSlots == 1..(MaxLoads + MaxCommentRows)

\* the database answers an outstanding loadPosts select
ServeLoad(c, i) ==
  /\ i \in 1..Len(loads[c])
  /\ loads[c][i].result = NULL
  /\ loads' = [loads EXCEPT ![c][i].result = Some(LoadPostsQuery)]
  /\ UNCHANGED <<dbPosts, dbComments, clientPosts, events, isOwner>>
  /\ UNCHANGED staleLoads
  /\ UNCHANGED otherThanRoom

\* loadPosts from its await on: setPosts(processedPosts), or, when the
\* request came back with postsError, return
loadPostsResponse(c, i, outcome) ==
  /\ i \in 1..Len(loads[c])
  /\ loads[c][i].result # NULL
  /\ clientPosts' = IF outcome = "ok"
                      THEN [clientPosts EXCEPT ![c] = Val(loads[c][i].result)]
                      ELSE clientPosts
  /\ loads' = [loads EXCEPT ![c] = RemoveAt(@, i)]
  /\ UNCHANGED <<dbPosts, dbComments, events, isOwner>>
  \* history: how many of the outstanding loads were issued before the
  \* load whose result setPosts last took
  /\ staleLoads' =
       [staleLoads EXCEPT ![c] =
          IF outcome = "ok" /\ i > @ THEN i - 1
          ELSE IF i <= @ THEN @ - 1
          ELSE @]
  /\ UNCHANGED otherThanRoom

\* the subscription's handlers, for the oldest undelivered event
DeliverEvent(c) ==
  /\ events[c] # <<>>
  /\ LET event == Head(events[c])
     IN  IF event.type = "posts INSERT"
           THEN /\ clientPosts' =
                     [clientPosts EXCEPT
                        ![c] = <<[id |-> event.new.id,
                                  pinned |-> event.new.pinned,
                                  comment_count |-> 0,
                                  comments |-> <<>>]>> \o @]
                /\ UNCHANGED loads
           ELSE /\ loads' = IssueLoad(c)
                /\ UNCHANGED clientPosts
  /\ events' = [events EXCEPT ![c] = Tail(@)]
  /\ UNCHANGED <<dbPosts, dbComments, isOwner>>
  /\ UNCHANGED staleLoads
  /\ UNCHANGED otherThanRoom

NextRoom ==
  \/ \E c \in Clients : handlePost(c)
  \/ \E c \in Clients : \E postId \in 1..MaxPosts : handleComment(c, postId)
  \/ \E c \in Clients : \E postId \in 1..MaxPosts :
       \E outcome \in {"ok", "error"} : handleDelete(c, postId, outcome)
  \/ \E c \in Clients : \E postId \in 1..MaxPosts :
       \E outcome \in {"ok", "error"} : handlePin(c, postId, outcome)
  \/ \E c \in Clients : \E i \in LoadSlots : ServeLoad(c, i)
  \/ \E c \in Clients : \E i \in LoadSlots :
       \E outcome \in {"ok", "error"} : loadPostsResponse(c, i, outcome)
  \/ \E c \in Clients : DeliverEvent(c)

SpecRoom == InitRoom /\ [][NextRoom]_vars

\* ------------------------------------------------------------- room claims
Quiet(c) == events[c] = <<>> /\ loads[c] = <<>>
DeletedIds == {dbPosts[i].id : i \in {j \in 1..Len(dbPosts) :
                                        dbPosts[j].deleted_at # NULL}}

\* C10: once handleDelete has set deleted_at on a post, every subscribed
\* client comes to a posts list without it with no action of its own: when
\* nothing is on its way to a client, its list holds no soft-deleted post.
C10_DeletedPostsDisappear ==
  \A c \in Clients :
    Quiet(c) => PostIds(clientPosts[c]) \cap DeletedIds = {}

LiveIds == {dbPosts[i].id : i \in {j \in 1..Len(dbPosts) :
                                     dbPosts[j].deleted_at = NULL}}

\* C11: a post inserted for the room is in the posts list of every subscribed
\* client once nothing is on its way to that client: with no load in flight
\* and no event pending, the list holds every post that is not soft-deleted
\* (no loadPosts response computed before the insert has dropped it).
C11_PostsAppearAndStay ==
  \A c \in Clients : Quiet(c) => LiveIds \subseteq PostIds(clientPosts[c])

\* C22: the posts list of a client never holds two entries with the same
\* post id, however a loadPosts response and the realtime INSERT event for
\* the same post interleave.
C22_NoDuplicatePosts ==
  \A c \in Clients :
    \A i, j \in 1..Len(clientPosts[c]) :
      clientPosts[c][i].id = clientPosts[c][j].id => i = j

\* C23: when loads overlap, the response of a load that was issued before
\* the load whose result the list last took does not replace that result.
C23_LatestLoadWins ==
  [][\A c \in Clients : \A i \in LoadSlots :
       loadPostsResponse(c, i, "ok") /\ i <= staleLoads[c]
         => clientPosts'[c] = clientPosts[c]]_vars

\* --------------------------------------------------------- generateRoomCode
MaxStride == 2

\* const chars = 'ABCDEFGHIJKLMNPQRSTUVWXYZ23456789'
chars == <<"A","B","C","D","E","F","G","H","I","J","K","L","M","N","P","Q",
           "R","S","T","U","V","W","X","Y","Z","2","3","4","5","6","7","8",
           "9">>

\* for (let i = 0; i < 8; i++)
CodeChars == 8
\* if (i === 4) code += '-'
HyphenBefore == 4

\* String.prototype.charAt: the character at a 0-based index, '' outside
charAt(s, index) ==
  IF index \in 0..(Len(s) - 1) THEN <<s[index + 1]>> ELSE <<>>

\* Math.floor(Math.random() * chars.length) for the eight iterations of one
\* call: Math.random() is in [0, 1), so each is an index of chars.  The calls
\* examined start at any index and advance by a fixed stride, so that every
\* character of chars is drawn at every position.
RandomDraws ==
  { [k \in 1..CodeChars |-> (b + (k - 1) * p) % Len(chars)] :
      b \in 0..(Len(chars) - 1), p \in 0..MaxStride }

LoopBody_NoHyphen(c, k, r) == c \o charAt(chars, r)

\* the body of the for loop, for let code = c, let i = k and the draw r
LoopBody(c, k, r) ==
  (IF k = HyphenBefore THEN Append(c, "-") ELSE c) \o charAt(chars, r)

otherThanCode == <<joinVars, commentVars, roomVars,
    orderVars,
    composeVars,
    createVars,
    expiryVars,
    loadVars>>

InitCode ==
  /\ genRandom \in RandomDraws
  /\ genCode = <<>>
  /\ genI = 0
  /\ now = 0
  /\ rooms = {}
  /\ bans = {}
  /\ lsSession = NULL
  /\ lsOwner = <<>>
  /\ route = NULL
  /\ open = FALSE
  /\ roomCode = <<>>
  /\ displayName = <<>>
  /\ password = <<>>
  /\ isJoining = FALSE
  /\ step = "code"
  /\ roomInfo = NULL
  /\ req = NoReq
  /\ session = NULL
  /\ sessionLoading = TRUE
  /\ joinName = <<>>
  /\ flatComments = <<>>
  /\ organized = NULL
  /\ dbPosts = <<>>
  /\ dbComments = <<>>
  /\ clientPosts = <<>>
  /\ events = <<>>
  /\ loads = <<>>
  /\ isOwner = <<>>
  /\ pagePosts = <<>>
  /\ rendered = NULL
  /\ pcVariant = "quill"
  /\ pcContent = <<>>
  /\ pcFiles = <<>>
  /\ pcIsPosting = FALSE
  /\ pcRun = <<>>
  /\ mediaBucket = <<>>
  /\ dbUploads = <<>>
  /\ postCreated = 0
  /\ ccContent = <<>>
  /\ ccIsPosting = FALSE
  /\ ccRun = <<>>
  /\ commentCreated = 0
  /\ crTitle = <<>>
  /\ crIsCreating = <<>>
  /\ crCreatedRoom = <<>>
  /\ crRun = <<>>
  /\ crStore = <<>>
  /\ expOption = <<>>
  /\ expNow = <<>>
  /\ expPc = "idle"
  /\ expiryAt = NULL
  /\ expStoredAt = NULL
  /\ staleLoads = <<>>

\* one iteration of the loop of generateRoomCode; the call returns code when
\* i reaches 8
generateRoomCode ==
  /\ genI < CodeChars
  /\ genCode' = LoopBody(genCode, genI, genRandom[genI + 1])
  /\ genI' = genI + 1
  /\ UNCHANGED genRandom
  /\ UNCHANGED otherThanCode

NextCode == generateRoomCode

SpecCode == InitCode /\ [][NextCode]_vars

Returned == genI = CodeChars

\* C14: every code generateRoomCode returns has nine characters, a hyphen as
\* the fifth and a letter A-Z or a digit in each of the other eight places,
\* and isValidRoomCode accepts it.
C14_GeneratedCodeFormat ==
  Returned =>
    /\ Len(genCode) = 9
    /\ \A k \in 1..9 : IF k = 5 THEN genCode[k] = "-"
                               ELSE genCode[k] \in Letters \cup Digits
    /\ isValidRoomCode(genCode)

C14_Witness_LettersAndDigits ==
  /\ Returned
  /\ genCode[1] \in Letters
  /\ genCode[9] \in Digits

\* C15: no code generateRoomCode returns contains O, 0, I or 1.
C15_NoConfusingCharacters ==
  Returned => \A k \in 1..Len(genCode) : genCode[k] \notin {"O", "0", "I", "1"}

\* -------------------------------------------------- RoomPage owner controls
\* The room already holds MaxPosts + 1 posts, none pinned or deleted, and both
\* clients show them all; the clients use the post menus (Pin, Delete).
ModeratedIds == 1..(MaxPosts + 1)

InitModerate ==
  /\ dbPosts = [k \in ModeratedIds |->
                  [id |-> k, pinned |-> FALSE, deleted_at |-> NULL,
                   created_at |-> k]]
  /\ dbComments = <<>>
  /\ clientPosts = [c \in Clients |->
                      [k \in ModeratedIds |->
                         [id |-> MaxPosts + 2 - k, pinned |-> FALSE,
                          comment_count |-> 0, comments |-> <<>>]]]
  /\ events = [c \in Clients |-> <<>>]
  /\ loads = [c \in Clients |-> <<>>]
  /\ isOwner = [c \in Clients |-> c = "owner"]
  /\ now = 0
  /\ rooms = {}
  /\ bans = {}
  /\ lsSession = NULL
  /\ lsOwner = <<>>
  /\ route = NULL
  /\ open = FALSE
  /\ roomCode = <<>>
  /\ displayName = <<>>
  /\ password = <<>>
  /\ isJoining = FALSE
  /\ step = "code"
  /\ roomInfo = NULL
  /\ req = NoReq
  /\ session = NULL
  /\ sessionLoading = TRUE
  /\ joinName = <<>>
  /\ flatComments = <<>>
  /\ organized = NULL
  /\ genRandom = <<>>
  /\ genCode = <<>>
  /\ genI = 0
  /\ pagePosts = <<>>
  /\ rendered = NULL
  /\ pcVariant = "quill"
  /\ pcContent = <<>>
  /\ pcFiles = <<>>
  /\ pcIsPosting = FALSE
  /\ pcRun = <<>>
  /\ mediaBucket = <<>>
  /\ dbUploads = <<>>
  /\ postCreated = 0
  /\ ccContent = <<>>
  /\ ccIsPosting = FALSE
  /\ ccRun = <<>>
  /\ commentCreated = 0
  /\ crTitle = <<>>
  /\ crIsCreating = <<>>
  /\ crCreatedRoom = <<>>
  /\ crRun = <<>>
  /\ crStore = <<>>
  /\ expOption = <<>>
  /\ expNow = <<>>
  /\ expPc = "idle"
  /\ expiryAt = NULL
  /\ expStoredAt = NULL
  /\ staleLoads = [c \in Clients |-> 0]

NextModerate ==
  \/ \E c \in Clients : \E postId \in ModeratedIds :
       \E outcome \in {"ok", "error"} : handlePin(c, postId, outcome)
  \/ \E c \in Clients : \E postId \in ModeratedIds :
       \E outcome \in {"ok", "error"} : handleDelete(c, postId, outcome)
  \/ \E c \in Clients : \E k \in LoadSlots : ServeLoad(c, k)
  \/ \E c \in Clients : \E k \in LoadSlots :
       \E outcome \in {"ok", "error"} : loadPostsResponse(c, k, outcome)

SpecModerate == InitModerate /\ [][NextModerate]_vars

RowsOtherThan(postId) == {k \in 1..Len(dbPosts) : dbPosts[k].id # postId}
RowsOf(postId) == {k \in 1..Len(dbPosts) : dbPosts[k].id = postId}

\* C16: handlePin and handleDelete change no row of posts when the client's
\* session.isOwner is false.  When it is true, handlePin leaves every row
\* with another id as it was and changes at most pinned, to true, in the row
\* with the id passed; handleDelete leaves every row with another id as it
\* was and changes at most deleted_at in the row with the id passed.  Neither
\* adds or removes a row, and neither touches comments.
C16_OnlyOwnerPinsOrDeletes ==
  [][\A c \in Clients : \A postId \in ModeratedIds :
       \A outcome \in {"ok", "error"} :
         /\ handlePin(c, postId, outcome) =>
              /\ ~isOwner[c] => dbPosts' = dbPosts
              /\ Len(dbPosts') = Len(dbPosts)
              /\ dbComments' = dbComments
              /\ \A k \in RowsOtherThan(postId) : dbPosts'[k] = dbPosts[k]
              /\ \A k \in RowsOf(postId) :
                   dbPosts'[k] \in {dbPosts[k],
                                    [dbPosts[k] EXCEPT !.pinned = TRUE]}
         /\ handleDelete(c, postId, outcome) =>
              /\ ~isOwner[c] => dbPosts' = dbPosts
              /\ Len(dbPosts') = Len(dbPosts)
              /\ dbComments' = dbComments
              /\ \A k \in RowsOtherThan(postId) : dbPosts'[k] = dbPosts[k]
              /\ \A k \in RowsOf(postId) :
                   [dbPosts'[k] EXCEPT !.deleted_at = NULL]
                     = [dbPosts[k] EXCEPT !.deleted_at = NULL]
    ]_vars

\* the owner has pinned one post and deleted another, and a third row, if
\* any, is as it was
C16_Witness_PinnedAndDeleted ==
  \E k, m \in 1..Len(dbPosts) :
    /\ k # m
    /\ dbPosts[k].pinned /\ dbPosts[k].deleted_at = NULL
    /\ ~dbPosts[m].pinned /\ dbPosts[m].deleted_at # NULL

\* ------------------------------------------------------ RoomPage orderedPosts
MaxListed == 3

\* const pinnedPosts = posts.filter(post => post.pinned);
\* const regularPosts = posts.filter(post => !post.pinned);
\* const orderedPosts = [...pinnedPosts, ...regularPosts];
orderedPosts_AsLoaded(posts) == posts

orderedPosts(posts) ==
  SelectSeq(posts, LAMBDA post : post.pinned)
    \o SelectSeq(posts, LAMBDA post : ~post.pinned)

otherThanOrder == <<joinVars, commentVars, roomVars, codeVars,
    composeVars,
    createVars,
    expiryVars,
    loadVars>>

\* posts is any list of up to MaxListed posts; two entries may carry the same
\* id (the list is not a set)
InitOrder ==
  /\ \E n \in 0..MaxListed :
       pagePosts \in [1..n -> [id : 1..MaxListed, pinned : BOOLEAN]]
  /\ rendered = NULL
  /\ now = 0
  /\ rooms = {}
  /\ bans = {}
  /\ lsSession = NULL
  /\ lsOwner = <<>>
  /\ route = NULL
  /\ open = FALSE
  /\ roomCode = <<>>
  /\ displayName = <<>>
  /\ password = <<>>
  /\ isJoining = FALSE
  /\ step = "code"
  /\ roomInfo = NULL
  /\ req = NoReq
  /\ session = NULL
  /\ sessionLoading = TRUE
  /\ joinName = <<>>
  /\ flatComments = <<>>
  /\ organized = NULL
  /\ dbPosts = <<>>
  /\ dbComments = <<>>
  /\ clientPosts = <<>>
  /\ events = <<>>
  /\ loads = <<>>
  /\ isOwner = <<>>
  /\ genRandom = <<>>
  /\ genCode = <<>>
  /\ genI = 0
  /\ pcVariant = "quill"
  /\ pcContent = <<>>
  /\ pcFiles = <<>>
  /\ pcIsPosting = FALSE
  /\ pcRun = <<>>
  /\ mediaBucket = <<>>
  /\ dbUploads = <<>>
  /\ postCreated = 0
  /\ ccContent = <<>>
  /\ ccIsPosting = FALSE
  /\ ccRun = <<>>
  /\ commentCreated = 0
  /\ crTitle = <<>>
  /\ crIsCreating = <<>>
  /\ crCreatedRoom = <<>>
  /\ crRun = <<>>
  /\ crStore = <<>>
  /\ expOption = <<>>
  /\ expNow = <<>>
  /\ expPc = "idle"
  /\ expiryAt = NULL
  /\ expStoredAt = NULL
  /\ staleLoads = <<>>

\* RoomPage renders
Render ==
  /\ rendered = NULL
  /\ rendered' = Some(orderedPosts(pagePosts))
  /\ UNCHANGED pagePosts
  /\ UNCHANGED otherThanOrder

NextOrder == Render

SpecOrder == InitOrder /\ [][NextOrder]_vars

Rearrangements(n) ==
  {p \in [1..n -> 1..n] : \A k, m \in 1..n : p[k] = p[m] => k = m}

\* C17: orderedPosts is posts rearranged, each entry of posts taken exactly
\* once (p maps positions of orderedPosts to positions of posts), with no
\* unpinned entry before a pinned one, and with two entries of the same group
\* in the order they have in posts.
C17_PinnedFirst ==
  rendered # NULL =>
    LET ordered == Val(rendered)
    IN  /\ Len(ordered) = Len(pagePosts)
        /\ \E p \in Rearrangements(Len(pagePosts)) :
             /\ \A k \in 1..Len(ordered) : ordered[k] = pagePosts[p[k]]
             /\ \A k, m \in 1..Len(ordered) :
                  k < m =>
                    /\ ordered[m].pinned => ordered[k].pinned
                    /\ ordered[k].pinned = ordered[m].pinned => p[k] < p[m]

\* a pinned post that was last in posts is rendered above two unpinned ones
C17_Witness_PinnedMovedUp ==
  /\ rendered # NULL
  /\ Len(pagePosts) = 3
  /\ ~pagePosts[1].pinned /\ ~pagePosts[2].pinned /\ pagePosts[3].pinned
  /\ pagePosts[1].id # pagePosts[2].id
  /\ Val(rendered) = <<pagePosts[3], pagePosts[1], pagePosts[2]>>

\* ------------------------------------------- PostComposer, CommentComposer
MaxFiles == 2
MaxObjects == 2

MAX_IMAGE_BYTES == 8 * 1024 * 1024
MAX_VIDEO_BYTES == 50 * 1024 * 1024
\* a MIME type is the sequence <<type, "/", subtype>>
ALLOWED_IMAGE == {<<"image", "/", "jpeg">>, <<"image", "/", "png">>,
                  <<"image", "/", "webp">>}
ALLOWED_VIDEO == {<<"video", "/", "mp4">>, <<"video", "/", "webm">>}

\* String.prototype.startsWith
startsWith(s, prefix) ==
  Len(s) >= Len(prefix) /\ SubSeq(s, 1, Len(prefix)) = prefix

\* the checks of onPickFiles on one file; TRUE when it reaches valid.push(f)
AcceptsFile_NoSizeLimit(f) ==
  LET isImage == startsWith(f.type, <<"image", "/">>)
      isVideo == startsWith(f.type, <<"video", "/">>)
  IN  /\ isImage \/ isVideo
      /\ ~(isImage /\ f.type \notin ALLOWED_IMAGE)
      /\ ~(isVideo /\ f.type \notin ALLOWED_VIDEO)

AcceptsFile(f) ==
  LET isImage == startsWith(f.type, <<"image", "/">>)
      isVideo == startsWith(f.type, <<"video", "/">>)
  IN  /\ isImage \/ isVideo
      /\ ~(isImage /\ f.type \notin ALLOWED_IMAGE)
      /\ ~(isVideo /\ f.type \notin ALLOWED_VIDEO)
      /\ ~(isImage /\ f.size > MAX_IMAGE_BYTES)
      /\ ~(isVideo /\ f.size > MAX_VIDEO_BYTES)

\* the files of the file dialog that are tried
FileInputs ==
  { [type |-> <<"image", "/", "jpeg">>, size |-> MAX_IMAGE_BYTES],
    [type |-> <<"image", "/", "png">>, size |-> MAX_IMAGE_BYTES + 1],
    [type |-> <<"image", "/", "gif">>, size |-> 1],
    [type |-> <<"video", "/", "mp4">>, size |-> MAX_VIDEO_BYTES],
    [type |-> <<"video", "/", "webm">>, size |-> MAX_VIDEO_BYTES + 1],
    [type |-> <<"video", "/", "quicktime">>, size |-> 1],
    [type |-> <<"application", "/", "pdf">>, size |-> 1] }

\* a selection in the file dialog: one file or two
SingleSelections == {<<f>> : f \in FileInputs}
Selections ==
  SingleSelections \cup {<<f, g>> : f \in FileInputs, g \in FileInputs}

\* html.replace(/<[^>]+>/g, ""): at a '<', the match runs to the first '>'
\* after it and needs at least one character in between
RECURSIVE RemoveTags(_)
RemoveTags(s) ==
  IF s = <<>> THEN <<>>
  ELSE LET closes == {j \in 2..Len(s) : s[j] = ">"}
           first == CHOOSE j \in closes : \A m \in closes : j <= m
       IN  IF Head(s) = "<" /\ closes # {} /\ first > 2
             THEN RemoveTags(SubSeq(s, first + 1, Len(s)))
             ELSE <<Head(s)>> \o RemoveTags(Tail(s))

Nbsp == <<"&", "n", "b", "s", "p", ";">>

\* .replace(/&nbsp;/g, " ")
RECURSIVE ReplaceNbsp(_)
ReplaceNbsp(s) ==
  IF s = <<>> THEN <<>>
  ELSE IF startsWith(s, Nbsp)
         THEN <<" ">> \o ReplaceNbsp(SubSeq(s, Len(Nbsp) + 1, Len(s)))
         ELSE <<Head(s)>> \o ReplaceNbsp(Tail(s))

stripHtml(html) == Trim(ReplaceNbsp(RemoveTags(html)))

\* DOMPurify.sanitize with ALLOWED_ATTR class, style, href, rel, target: the
\* markup Quill emits for the formats bold, italic, strike, size, font (p, br,
\* strong, em, s, span with class or style) has nothing to remove
sanitize(html) == html

EmptyParagraph == <<"<", "p", ">", "<", "/", "p", ">">>

\* what the user leaves in the editor (quill: HTML from Quill's onChange) or
\* types in the Input (plain)
ContentInputs ==
  { EmptyParagraph,
    <<"<", "p", ">", "a", "<", "/", "p", ">">>,
    <<"<", "p", ">", "&", "n", "b", "s", "p", ";", "<", "/", "p", ">">>,
    <<>>, <<" ">>, <<"a">> }

CommentInputs == {<<>>, <<" ">>, <<" ", "a">>}

\* useState("<p></p>") in the Quill composer, useState("") in the plain one
InitialContent(variant) == IF variant = "quill" THEN EmptyParagraph ELSE <<>>

\* the condition of the first if of handlePost
\* quill: !stripHtml(content || "") && files.length === 0
\* plain: !content.trim() && files.length === 0
PostText(variant, c) == IF variant = "quill" THEN stripHtml(c) ELSE Trim(c)

HasNothingToPost_Unstripped(variant, c, fs) == c = <<>> /\ fs = <<>>

HasNothingToPost(variant, c, fs) == PostText(variant, c) = <<>> /\ fs = <<>>

\* the content column of the inserted row
PostedContent(variant, c) == IF variant = "quill" THEN sanitize(c) ELSE Trim(c)

NoPostRun == [pc |-> "idle", content |-> <<>>, files |-> <<>>,
              uploaded |-> <<>>]
NoCommentRun == [pc |-> "idle", content |-> <<>>]

otherThanCompose == <<joinVars, commentVars, codeVars, orderVars,
                      clientPosts, events, loads, isOwner,
    createVars,
    expiryVars,
    loadVars>>
postComposerVars == <<pcVariant, pcContent, pcFiles, pcIsPosting, pcRun,
                      mediaBucket, dbUploads, postCreated, dbPosts>>
commentComposerVars == <<ccContent, ccIsPosting, ccRun, commentCreated,
                         dbComments>>

InitCompose ==
  /\ pcVariant \in {"quill", "plain"}
  /\ pcContent = InitialContent(pcVariant)
  /\ pcFiles = <<>>
  /\ pcIsPosting = FALSE
  /\ pcRun = NoPostRun
  /\ mediaBucket = <<>>
  /\ dbUploads = <<>>
  /\ postCreated = 0
  /\ ccContent = <<>>
  /\ ccIsPosting = FALSE
  /\ ccRun = NoCommentRun
  /\ commentCreated = 0
  /\ dbPosts = <<>>
  /\ dbComments = <<>>
  /\ now = 0
  /\ rooms = {}
  /\ bans = {}
  /\ lsSession = NULL
  /\ lsOwner = <<>>
  /\ route = NULL
  /\ open = FALSE
  /\ roomCode = <<>>
  /\ displayName = <<>>
  /\ password = <<>>
  /\ isJoining = FALSE
  /\ step = "code"
  /\ roomInfo = NULL
  /\ req = NoReq
  /\ session = NULL
  /\ sessionLoading = TRUE
  /\ joinName = <<>>
  /\ flatComments = <<>>
  /\ organized = NULL
  /\ clientPosts = <<>>
  /\ events = <<>>
  /\ loads = <<>>
  /\ isOwner = <<>>
  /\ genRandom = <<>>
  /\ genCode = <<>>
  /\ genI = 0
  /\ pagePosts = <<>>
  /\ rendered = NULL
  /\ crTitle = <<>>
  /\ crIsCreating = <<>>
  /\ crCreatedRoom = <<>>
  /\ crRun = <<>>
  /\ crStore = <<>>
  /\ expOption = <<>>
  /\ expNow = <<>>
  /\ expPc = "idle"
  /\ expiryAt = NULL
  /\ expStoredAt = NULL
  /\ staleLoads = <<>>

\* ReactQuill onChange={setContent} (the editor is never disabled; the value
\* is Quill's HTML), or the plain Input's onChange (disabled={isPosting};
\* the value is the text typed)
setContent(value) ==
  /\ IF pcVariant = "quill"
       THEN startsWith(value, <<"<">>)
       ELSE ~startsWith(value, <<"<">>) /\ ~pcIsPosting
  /\ pcContent' = value
  /\ UNCHANGED <<pcVariant, pcFiles, pcIsPosting, pcRun, mediaBucket,
                 dbUploads, postCreated, dbPosts>>
  /\ UNCHANGED commentComposerVars
  /\ UNCHANGED otherThanCompose

\* onPickFiles, reached through the Add media button (disabled={isPosting})
onPickFiles(incoming) ==
  /\ ~pcIsPosting
  /\ LET valid == SelectSeq(incoming, AcceptsFile)
     IN  /\ Len(pcFiles) + Len(valid) <= MaxFiles
         /\ pcFiles' = pcFiles \o valid
  /\ UNCHANGED <<pcVariant, pcContent, pcIsPosting, pcRun, mediaBucket,
                 dbUploads, postCreated, dbPosts>>
  /\ UNCHANGED commentComposerVars
  /\ UNCHANGED otherThanCompose

\* the X button of a file chip: setFiles(files.filter((_, i) => i !== idx))
removeFile(idx) ==
  /\ idx \in 1..Len(pcFiles)
  /\ pcFiles' = RemoveAt(pcFiles, idx)
  /\ UNCHANGED <<pcVariant, pcContent, pcIsPosting, pcRun, mediaBucket,
                 dbUploads, postCreated, dbPosts>>
  /\ UNCHANGED commentComposerVars
  /\ UNCHANGED otherThanCompose

\* PostComposer.handlePost up to its first await (send button, or Enter in
\* the plain Input): the content check, setIsPosting(true), and the call of
\* uploadSelectedFiles, which returns [] at once when there are no files
PostComposer_handlePost ==
  /\ pcRun.pc = "idle"
  /\ Len(dbPosts) < MaxPosts
  /\ Len(mediaBucket) + Len(pcFiles) <= MaxObjects
  /\ IF HasNothingToPost(pcVariant, pcContent, pcFiles)
       THEN UNCHANGED <<pcIsPosting, pcRun>>
       ELSE /\ pcIsPosting' = TRUE
            /\ pcRun' = [pc |-> IF pcFiles = <<>> THEN "insert" ELSE "upload",
                         content |-> pcContent, files |-> pcFiles,
                         uploaded |-> <<>>]
  /\ UNCHANGED <<pcVariant, pcContent, pcFiles, mediaBucket, dbUploads,
                 postCreated, dbPosts>>
  /\ UNCHANGED commentComposerVars
  /\ UNCHANGED otherThanCompose

\* the catch and finally blocks of handlePost: toast, setIsPosting(false)
PostFailed_ClearsComposer ==
  /\ pcIsPosting' = FALSE
  /\ pcRun' = NoPostRun
  /\ pcContent' = InitialContent(pcVariant)
  /\ pcFiles' = <<>>
  /\ UNCHANGED <<postCreated, dbPosts>>

PostFailed ==
  /\ pcIsPosting' = FALSE
  /\ pcRun' = NoPostRun
  /\ UNCHANGED <<pcContent, pcFiles, postCreated, dbPosts>>

\* one iteration of the loop of uploadSelectedFiles: the storage upload of the
\* next file and, when it succeeded, the insert into uploads, whose result
\* the code does not look at
uploadSelectedFiles(outcome) ==
  /\ pcRun.pc = "upload"
  /\ LET f == pcRun.files[Len(pcRun.uploaded) + 1]
     IN  IF outcome = "ok"
           THEN /\ mediaBucket' = Append(mediaBucket, f)
                /\ dbUploads' = Append(dbUploads, f)
                /\ pcRun' = [pcRun EXCEPT
                               !.uploaded = Append(@, f),
                               !.pc = IF Len(pcRun.uploaded) + 1
                                          = Len(pcRun.files)
                                        THEN "insert" ELSE "upload"]
                /\ UNCHANGED <<pcContent, pcFiles, pcIsPosting, postCreated,
                               dbPosts>>
           ELSE /\ PostFailed
                /\ UNCHANGED <<mediaBucket, dbUploads>>
  /\ UNCHANGED pcVariant
  /\ UNCHANGED commentComposerVars
  /\ UNCHANGED otherThanCompose

\* handlePost from the insert into posts on
insertPost(outcome) ==
  /\ pcRun.pc = "insert"
  /\ IF outcome = "ok"
       THEN /\ dbPosts' = Append(dbPosts,
                            [id |-> Len(dbPosts) + 1,
                             content |-> PostedContent(pcVariant, pcRun.content),
                             media |-> pcRun.uploaded])
            /\ pcContent' = InitialContent(pcVariant)
            /\ pcFiles' = <<>>
            /\ postCreated' = postCreated + 1
            /\ pcIsPosting' = FALSE
            /\ pcRun' = NoPostRun
       ELSE PostFailed
  /\ UNCHANGED <<pcVariant, mediaBucket, dbUploads>>
  /\ UNCHANGED commentComposerVars
  /\ UNCHANGED otherThanCompose

\* the comment Input's onChange (disabled={isPosting})
setCommentContent(value) ==
  /\ ~ccIsPosting
  /\ ccContent' = value
  /\ UNCHANGED <<ccIsPosting, ccRun, commentCreated, dbComments>>
  /\ UNCHANGED postComposerVars
  /\ UNCHANGED otherThanCompose

\* the condition of the first if of handleComment: !content.trim()
HasNoComment(c) == Trim(c) = <<>>

\* CommentComposer.handleComment up to its await (send button, or Enter in
\* the Input)
CommentComposer_handleComment ==
  /\ ccRun.pc = "idle"
  /\ Len(dbComments) < MaxCommentRows
  /\ IF HasNoComment(ccContent)
       THEN UNCHANGED <<ccIsPosting, ccRun>>
       ELSE /\ ccIsPosting' = TRUE
            /\ ccRun' = [pc |-> "insert", content |-> ccContent]
  /\ UNCHANGED <<ccContent, commentCreated, dbComments>>
  /\ UNCHANGED postComposerVars
  /\ UNCHANGED otherThanCompose

\* handleComment from the insert into comments on
insertComment(outcome) ==
  /\ ccRun.pc = "insert"
  /\ IF outcome = "ok"
       THEN /\ dbComments' = Append(dbComments,
                               [id |-> Len(dbComments) + 1,
                                parent_comment_id |-> NULL,
                                content |-> Trim(ccRun.content)])
            /\ ccContent' = <<>>
            /\ commentCreated' = commentCreated + 1
       ELSE UNCHANGED <<ccContent, commentCreated, dbComments>>
  /\ ccIsPosting' = FALSE
  /\ ccRun' = NoCommentRun
  /\ UNCHANGED postComposerVars
  /\ UNCHANGED otherThanCompose

\* both composers of a post card; files are selected one at a time
NextCompose ==
  \/ \E value \in ContentInputs : setContent(value)
  \/ \E incoming \in SingleSelections : onPickFiles(incoming)
  \/ \E idx \in 1..(MaxFiles + 1) : removeFile(idx)
  \/ PostComposer_handlePost
  \/ \E outcome \in {"ok", "error"} : uploadSelectedFiles(outcome)
  \/ \E outcome \in {"ok", "error"} : insertPost(outcome)
  \/ \E value \in CommentInputs : setCommentContent(value)
  \/ CommentComposer_handleComment
  \/ \E outcome \in {"ok", "error"} : insertComment(outcome)

SpecCompose == InitCompose /\ [][NextCompose]_vars

\* the post composer alone, the comment composer left untouched
NextPost ==
  \/ \E value \in ContentInputs : setContent(value)
  \/ \E incoming \in Selections : onPickFiles(incoming)
  \/ \E idx \in 1..(MaxFiles + 1) : removeFile(idx)
  \/ PostComposer_handlePost
  \/ \E outcome \in {"ok", "error"} : uploadSelectedFiles(outcome)
  \/ \E outcome \in {"ok", "error"} : insertPost(outcome)

SpecPost == InitCompose /\ [][NextPost]_vars

\* ---------------------------------------------------------- composer claims
UploadFails == pcRun.pc = "upload" /\ pcRun'.pc = "idle"

\* C18: the step in which an upload of handlePost fails inserts no post,
\* leaves content and files as they are, does not call onPostCreated, sets
\* isPosting to false and leaves the bucket as it is (the objects uploaded
\* before stay).  An object enters the bucket only as the next file of a
\* running handlePost, each file of the run once, and never leaves it; a post
\* is inserted only by a run that has uploaded all its files.
C18_UploadFailure ==
  [][/\ UploadFails =>
          /\ dbPosts' = dbPosts
          /\ pcContent' = pcContent
          /\ pcFiles' = pcFiles
          /\ postCreated' = postCreated
          /\ pcIsPosting' = FALSE
          /\ mediaBucket' = mediaBucket
     /\ mediaBucket' # mediaBucket =>
          /\ pcRun.pc = "upload"
          /\ Len(pcRun.uploaded) < Len(pcRun.files)
          /\ mediaBucket'
               = Append(mediaBucket, pcRun.files[Len(pcRun.uploaded) + 1])
          /\ Len(pcRun'.uploaded) = Len(pcRun.uploaded) + 1
     /\ dbPosts' # dbPosts =>
          /\ pcRun.pc = "insert"
          /\ Len(pcRun.uploaded) = Len(pcRun.files)
    ]_vars

\* the first of two files is in the bucket, the composer still holds both
\* files and its text, is not busy, and no post exists
C18_Witness_FirstFileUploaded ==
  /\ pcRun.pc = "idle"
  /\ ~pcIsPosting
  /\ Len(pcFiles) = 2
  /\ mediaBucket = <<pcFiles[1]>>
  /\ pcContent # InitialContent(pcVariant)
  /\ dbPosts = <<>>
  /\ postCreated = 0

TextIsEmpty(variant, c) ==
  IF variant = "quill" THEN Trim(ReplaceNbsp(RemoveTags(c))) = <<>>
                       ELSE Trim(c) = <<>>

FileAllowed(f) ==
  \/ /\ f.type \in {<<"image", "/", "jpeg">>, <<"image", "/", "png">>,
                    <<"image", "/", "webp">>}
     /\ f.size <= 8 * 1024 * 1024
  \/ /\ f.type \in {<<"video", "/", "mp4">>, <<"video", "/", "webm">>}
     /\ f.size <= 50 * 1024 * 1024

\* C20: every file in files has an allowed MIME type and a size within the
\* limit of its kind, and a selection adds exactly its allowed files, in
\* their order, after the files already there.
C20_FileLimits ==
  /\ [](\A k \in 1..Len(pcFiles) : FileAllowed(pcFiles[k]))
  /\ [][pcFiles' # pcFiles =>
          \A incoming \in Selections :
            onPickFiles(incoming) =>
              pcFiles' = pcFiles \o SelectSeq(incoming, FileAllowed)]_vars

\* an image and a video, each exactly at its size limit, are in files
C20_Witness_FilesAtLimits ==
  /\ Len(pcFiles) = 2
  /\ pcFiles[1].size = 8 * 1024 * 1024
  /\ pcFiles[2].size = 50 * 1024 * 1024

\* ------------------------------------------------------------------------
\* CreateRoomModal (src/unnamed/part_001): handleCreate run by two browsers
\* against the one table public.rooms, whose column code is UNIQUE
\* ------------------------------------------------------------------------

Creators == {"c1", "c2"}

\* codes generateRoomCode can return (every character is in chars): one is
\* the code of a room that already exists, one is free
GeneratedCodes == {CodeB, CodeNone}

\* values generateOwnerToken can return
GeneratedTokens == {<<"k">>, <<"m">>}

TitleInputs == {<<" ">>, <<"t">>}

\* the insert can also reach the table while its answer never reaches the
\* browser
InsertOutcomes == Outcomes \cup {"lost"}

NoCreateRun ==
  [pc |-> "idle", title |-> <<>>, roomCode |-> <<>>, ownerToken |-> <<>>]

otherThanCreate == <<now, bans, lsSession, lsOwner, route, modalVars, req,
                     pageVars, commentVars, roomVars, codeVars, orderVars,
                     composeVars,
    expiryVars,
    loadVars>>

InitCreate ==
  /\ now = 0
  /\ rooms = {RoomA, RoomB}
  /\ bans = InitBans
  /\ lsSession = NULL
  /\ lsOwner = [c \in RouteCodes |-> NULL]
  /\ route = NULL
  /\ open = FALSE
  /\ roomCode = <<>>
  /\ displayName = <<>>
  /\ password = <<>>
  /\ isJoining = FALSE
  /\ step = "code"
  /\ roomInfo = NULL
  /\ req = NoReq
  /\ session = NULL
  /\ sessionLoading = TRUE
  /\ joinName = <<>>
  /\ flatComments = <<>>
  /\ organized = NULL
  /\ dbPosts = <<>>
  /\ dbComments = <<>>
  /\ clientPosts = <<>>
  /\ events = <<>>
  /\ loads = <<>>
  /\ isOwner = <<>>
  /\ genRandom = <<>>
  /\ genCode = <<>>
  /\ genI = 0
  /\ pagePosts = <<>>
  /\ rendered = NULL
  /\ pcVariant = "quill"
  /\ pcContent = <<>>
  /\ pcFiles = <<>>
  /\ pcIsPosting = FALSE
  /\ pcRun = <<>>
  /\ mediaBucket = <<>>
  /\ dbUploads = <<>>
  /\ postCreated = 0
  /\ ccContent = <<>>
  /\ ccIsPosting = FALSE
  /\ ccRun = <<>>
  /\ commentCreated = 0
  /\ crTitle = [c \in Creators |-> <<>>]
  /\ crIsCreating = [c \in Creators |-> FALSE]
  /\ crCreatedRoom = [c \in Creators |-> NULL]
  /\ crRun = [c \in Creators |-> NoCreateRun]
  /\ crStore = [c \in Creators |-> [k \in GeneratedCodes |-> NULL]]
  /\ expOption = <<>>
  /\ expNow = <<>>
  /\ expPc = "idle"
  /\ expiryAt = NULL
  /\ expStoredAt = NULL
  /\ staleLoads = <<>>

\* <Input id="title" onChange={(e) => setTitle(e.target.value)}>, shown while
\* no room has been created
setTitle(c, value) ==
  /\ crCreatedRoom[c] = NULL
  /\ crTitle' = [crTitle EXCEPT ![c] = value]
  /\ UNCHANGED <<rooms, crIsCreating, crCreatedRoom, crRun, crStore>>
  /\ UNCHANGED otherThanCreate

\* handleCreate up to the first await of its do-while loop; the Create Room
\* button is disabled while isCreating
CreateRoomModal_handleCreate(c, code) ==
  /\ crCreatedRoom[c] = NULL
  /\ ~crIsCreating[c]
  /\ IF Trim(crTitle[c]) = <<>>
       THEN UNCHANGED <<crIsCreating, crRun>>
       ELSE /\ crIsCreating' = [crIsCreating EXCEPT ![c] = TRUE]
            /\ crRun' = [crRun EXCEPT ![c] =
                 [pc |-> "exists", title |-> crTitle[c], roomCode |-> code,
                  ownerToken |-> <<>>]]
  /\ UNCHANGED <<rooms, crTitle, crCreatedRoom, crStore>>
  /\ UNCHANGED otherThanCreate

\* catch { console.error; toast } finally { setIsCreating(false) }
CreateFailed_StillCreating(c) ==
  /\ crRun' = [crRun EXCEPT ![c] = NoCreateRun]
  /\ UNCHANGED <<crIsCreating, crCreatedRoom, crStore>>

CreateFailed(c) ==
  /\ crIsCreating' = [crIsCreating EXCEPT ![c] = FALSE]
  /\ crRun' = [crRun EXCEPT ![c] = NoCreateRun]
  /\ UNCHANGED <<crCreatedRoom, crStore>>

\* the answer of rooms.select('id').eq('code', roomCode).limit(1): an error
\* answer has data null, so codeExists is falsy and the loop ends
existsSelect(c, outcome, code, token) ==
  /\ crRun[c].pc = "exists"
  /\ IF outcome = "throw"
       THEN CreateFailed(c)
     ELSE IF outcome = "ok" /\ \E r \in rooms : r.code = crRun[c].roomCode
       THEN /\ crRun' = [crRun EXCEPT ![c].roomCode = code]
            /\ UNCHANGED <<crIsCreating, crCreatedRoom, crStore>>
     ELSE /\ crRun' = [crRun EXCEPT ![c].pc = "insert",
                                    ![c].ownerToken = token]
          /\ UNCHANGED <<crIsCreating, crCreatedRoom, crStore>>
  /\ UNCHANGED <<rooms, crTitle>>
  /\ UNCHANGED otherThanCreate

\* code VARCHAR(9) NOT NULL UNIQUE: the table rejects a second row with the
\* same code
UniqueViolation_Never(code) == FALSE

UniqueViolation(code) == \E r \in rooms : r.code = code

NewRoom(c) ==
  [id |-> Cardinality(rooms) + 1, code |-> crRun[c].roomCode,
   title |-> Trim(crRun[c].title), description |-> NULL,
   password_hash |-> NULL, expiry_at |-> NULL,
   owner_token_hash |-> hashString(crRun[c].ownerToken)]

\* handleCreate from the answer of rooms.insert(...).select().single() to its
\* end
insertRoom(c, outcome) ==
  /\ crRun[c].pc = "insert"
  /\ IF outcome \in {"error", "throw"} \/ UniqueViolation(crRun[c].roomCode)
       THEN /\ CreateFailed(c)
            /\ UNCHANGED rooms
     ELSE IF outcome = "lost"
       THEN /\ rooms' = rooms \cup {NewRoom(c)}
            /\ CreateFailed(c)
     ELSE /\ rooms' = rooms \cup {NewRoom(c)}
          /\ crStore' = [crStore EXCEPT ![c][crRun[c].roomCode] =
                                          Some(crRun[c].ownerToken)]
          /\ crCreatedRoom' = [crCreatedRoom EXCEPT ![c] =
                 Some([code |-> crRun[c].roomCode,
                       ownerToken |-> crRun[c].ownerToken])]
          /\ crIsCreating' = [crIsCreating EXCEPT ![c] = FALSE]
          /\ crRun' = [crRun EXCEPT ![c] = NoCreateRun]
  /\ UNCHANGED crTitle
  /\ UNCHANGED otherThanCreate

\* the Done button and the dialog's onOpenChange
CreateRoomModal_resetModal(c) ==
  /\ crTitle[c] # <<>> \/ crCreatedRoom[c] # NULL
  /\ crTitle' = [crTitle EXCEPT ![c] = <<>>]
  /\ crCreatedRoom' = [crCreatedRoom EXCEPT ![c] = NULL]
  /\ UNCHANGED <<rooms, crIsCreating, crRun, crStore>>
  /\ UNCHANGED otherThanCreate

NextCreate ==
  \/ \E c \in Creators : \E value \in TitleInputs : setTitle(c, value)
  \/ \E c \in Creators : \E code \in GeneratedCodes :
       CreateRoomModal_handleCreate(c, code)
  \/ \E c \in Creators : \E outcome \in Outcomes :
       \E code \in GeneratedCodes : \E token \in GeneratedTokens :
         existsSelect(c, outcome, code, token)
  \/ \E c \in Creators : \E outcome \in InsertOutcomes : insertRoom(c, outcome)
  \/ \E c \in Creators : CreateRoomModal_resetModal(c)

SpecCreate == InitCreate /\ [][NextCreate]_vars

RowsWithCode(code) == {r \in rooms : r.code = code}

StoredBy(code) == {c \in Creators : crStore[c][code] # NULL}

\* C13: for every room code at most one row of rooms has it and at most one
\* browser has stored blacksite_owner_<code> through handleCreate, also when
\* two browsers passed the existence check with the same code before either
\* inserted; a browser whose insert put no row in the table stores no owner
\* token and shows no created-room screen.
C13_UniqueCodesUnderRace ==
  /\ [](\A code \in GeneratedCodes :
          /\ Cardinality(RowsWithCode(code)) <= 1
          /\ Cardinality(StoredBy(code)) <= 1)
  /\ [][\A c \in Creators :
          crRun[c].pc = "insert" /\ rooms' = rooms
            => crStore'[c] = crStore[c] /\ crCreatedRoom'[c] = NULL]_vars

\* one browser has created the room while the other, having passed the
\* existence check with the same code, is about to insert
C13_Witness_RaceOnOneCode ==
  \E c, d \in Creators :
    /\ c # d
    /\ crCreatedRoom[c] # NULL
    /\ crRun[d].pc = "insert"
    /\ crRun[d].roomCode = Val(crCreatedRoom[c]).code
    /\ crStore[d][crRun[d].roomCode] = NULL

\* ------------------------------------------------------------------------
\* The five handlers with a busy flag in one browser: validateRoomCode and
\* joinRoom (JoinRoomModal) and handleCreate (CreateRoomModal) on the Index
\* page, handlePost and handleComment on the room page the join leads to
\* ------------------------------------------------------------------------

\* the browser whose handlers are followed
ThisBrowser == "c1"

HandlerCodeInputs == {<<"A","B","C","D","1","2","3","4">>, CodeB}
HandlerPasswordInputs == {<<"p">>, <<"q">>}
HandlerContentInputs == {<<"<", "p", ">", "a", "<", "/", "p", ">">>}
HandlerSelections ==
  {<<[type |-> <<"image", "/", "jpeg">>, size |-> MAX_IMAGE_BYTES]>>,
   <<[type |-> <<"application", "/", "pdf">>, size |-> 1]>>}
HandlerCommentInputs == {<<" ">>, <<" ", "a">>}

InitHandlers ==
  /\ now = 0
  /\ rooms = {RoomA, RoomB}
  /\ bans = InitBans
  /\ lsSession = NULL
  /\ lsOwner = [c \in RouteCodes |-> NULL]
  /\ route = NULL
  /\ open = FALSE
  /\ roomCode = <<>>
  /\ displayName = <<>>
  /\ password = <<>>
  /\ isJoining = FALSE
  /\ step = "code"
  /\ roomInfo = NULL
  /\ req = NoReq
  /\ session = NULL
  /\ sessionLoading = TRUE
  /\ joinName = <<>>
  /\ flatComments = <<>>
  /\ organized = NULL
  /\ dbPosts = <<>>
  /\ dbComments = <<>>
  /\ clientPosts = <<>>
  /\ events = <<>>
  /\ loads = <<>>
  /\ isOwner = <<>>
  /\ genRandom = <<>>
  /\ genCode = <<>>
  /\ genI = 0
  /\ pagePosts = <<>>
  /\ rendered = NULL
  /\ pcVariant = "quill"
  /\ pcContent = InitialContent(pcVariant)
  /\ pcFiles = <<>>
  /\ pcIsPosting = FALSE
  /\ pcRun = NoPostRun
  /\ mediaBucket = <<>>
  /\ dbUploads = <<>>
  /\ postCreated = 0
  /\ ccContent = <<>>
  /\ ccIsPosting = FALSE
  /\ ccRun = NoCommentRun
  /\ commentCreated = 0
  /\ crTitle = [c \in Creators |-> <<>>]
  /\ crIsCreating = [c \in Creators |-> FALSE]
  /\ crCreatedRoom = [c \in Creators |-> NULL]
  /\ crRun = [c \in Creators |-> NoCreateRun]
  /\ crStore = [c \in Creators |-> [k \in GeneratedCodes |-> NULL]]
  /\ expOption = <<>>
  /\ expNow = <<>>
  /\ expPc = "idle"
  /\ expiryAt = NULL
  /\ expStoredAt = NULL
  /\ staleLoads = <<>>

\* the modals are on the Index page (route NULL), the composers on the room
\* page, the comment composer in the card of a post; a handler that is
\* suspended at an await goes on whatever the page.  The create dialog is
\* left as it is after a run, so a failed creation can be started again.
NextHandlers ==
  \/ OpenJoinModal
  \/ \E value \in HandlerCodeInputs : handleRoomCodeChange(value)
  \/ validateRoomCode
  \/ \E outcome \in Outcomes : validateRoomCodeResponse(outcome)
  \/ \E value \in NameInputs : setDisplayName(value)
  \/ \E value \in HandlerPasswordInputs : setPassword(value)
  \/ joinRoom
  \/ \E outcome \in Outcomes : joinRoomResponse(outcome)
  \/ \E outcome \in Outcomes : bansSelect(outcome)
  \/ joinRoomBanResponse
  \/ route = NULL /\ setTitle(ThisBrowser, <<"t">>)
  \/ route = NULL /\ \E code \in GeneratedCodes :
                       CreateRoomModal_handleCreate(ThisBrowser, code)
  \/ \E outcome \in Outcomes : \E code \in GeneratedCodes :
       existsSelect(ThisBrowser, outcome, code, <<"k">>)
  \/ \E outcome \in InsertOutcomes : insertRoom(ThisBrowser, outcome)
  \/ route # NULL /\ \E value \in HandlerContentInputs : setContent(value)
  \/ route # NULL /\ \E incoming \in HandlerSelections : onPickFiles(incoming)
  \/ route # NULL /\ PostComposer_handlePost
  \/ \E outcome \in Outcomes : uploadSelectedFiles(outcome)
  \/ \E outcome \in Outcomes : insertPost(outcome)
  \/ route # NULL /\ dbPosts # <<>>
       /\ \E value \in HandlerCommentInputs : setCommentContent(value)
  \/ route # NULL /\ dbPosts # <<>> /\ CommentComposer_handleComment
  \/ \E outcome \in Outcomes : insertComment(outcome)

SpecHandlers == InitHandlers /\ [][NextHandlers]_vars

HandlersIdle ==
  /\ req.pc = "idle"
  /\ crRun[ThisBrowser].pc = "idle"
  /\ pcRun.pc = "idle"
  /\ ccRun.pc = "idle"

\* C12: whenever one of validateRoomCode, joinRoom, handleCreate, handlePost
\* and handleComment is not running (it has finished with ok, error or throw,
\* or has not been started) its busy flag is false; and nothing is retried:
\* a handler at its insert ends with the answer, an upload loop either ends
\* or goes on to the next file, and a row enters posts, comments or rooms
\* only in the one step in which the handler that was at its insert ends.
C12_FlagsResetNoRetry ==
  /\ [](/\ req.pc = "idle" => ~isJoining
        /\ crRun[ThisBrowser].pc = "idle" => ~crIsCreating[ThisBrowser]
        /\ pcRun.pc = "idle" => ~pcIsPosting
        /\ ccRun.pc = "idle" => ~ccIsPosting)
  /\ [][/\ pcRun.pc = "insert" /\ pcRun' # pcRun => pcRun'.pc = "idle"
        /\ pcRun.pc = "upload" /\ pcRun' # pcRun
             => \/ pcRun'.pc = "idle"
                \/ Len(pcRun'.uploaded) = Len(pcRun.uploaded) + 1
        /\ ccRun.pc = "insert" /\ ccRun' # ccRun => ccRun'.pc = "idle"
        /\ crRun[ThisBrowser].pc = "insert" /\ crRun' # crRun
             => crRun'[ThisBrowser].pc = "idle"
        /\ dbPosts' # dbPosts
             => /\ Len(dbPosts') = Len(dbPosts) + 1
                /\ pcRun.pc = "insert" /\ pcRun'.pc = "idle"
        /\ dbComments' # dbComments
             => /\ Len(dbComments') = Len(dbComments) + 1
                /\ ccRun.pc = "insert" /\ ccRun'.pc = "idle"
        /\ rooms' # rooms
             => /\ Cardinality(rooms') = Cardinality(rooms) + 1
                /\ crRun[ThisBrowser].pc = "insert"
                /\ crRun'[ThisBrowser].pc = "idle"]_vars

\* all five handlers have run and ended: the join went through, a comment
\* was posted, a post failed after its upload (the bucket holds an object no
\* post refers to) before one succeeded, and a room creation ended in the
\* catch block after its row was written
C12_Witness_AllHandlersEnded ==
  /\ HandlersIdle
  /\ ~isJoining /\ ~pcIsPosting /\ ~ccIsPosting
  /\ ~crIsCreating[ThisBrowser]
  /\ lsSession # NULL
  /\ commentCreated > 0
  /\ dbPosts # <<>>
  /\ Len(mediaBucket) > Len(dbPosts[1].media)
  /\ \E r \in rooms : r.code = CodeNone
  /\ crStore[ThisBrowser][CodeNone] = NULL

\* ------------------------------------------------------------------------
\* calculateExpiry (src/src/lib/room-utils.ts) and the expiry_at that
\* handleCreate stores.  An instant is a Date: s whole seconds and ms
\* milliseconds (0..999) since the epoch.
\* ------------------------------------------------------------------------

MaxClock == 1
MaxCount == 30

Instants == [s : 0..MaxClock, ms : {0, 999}]

DigitValue(ch) ==
  CASE ch = "0" -> 0 [] ch = "1" -> 1 [] ch = "2" -> 2 [] ch = "3" -> 3
    [] ch = "4" -> 4 [] ch = "5" -> 5 [] ch = "6" -> 6 [] ch = "7" -> 7
    [] ch = "8" -> 8 [] ch = "9" -> 9

\* parseInt of a string of decimal digits
RECURSIVE parseInt(_)
parseInt(ds) ==
  IF ds = <<>> THEN 0
  ELSE parseInt(SubSeq(ds, 1, Len(ds) - 1)) * 10 + DigitValue(ds[Len(ds)])

\* expiryOption.match(/^(\d+)([hd])$/)
MatchExpiry(option) ==
  /\ Len(option) >= 2
  /\ option[Len(option)] \in {"h", "d"}
  /\ \A k \in 1..(Len(option) - 1) : option[k] \in Digits

\* new Date(now.getTime() + seconds * 1000)
PlusSeconds(t, seconds) == [s |-> t.s + seconds, ms |-> t.ms]

calculateExpiry_DaysAsHours(expiryOption, t) ==
  IF expiryOption = <<"n","e","v","e","r">> THEN NULL
  ELSE IF ~MatchExpiry(expiryOption) THEN NULL
  ELSE LET value == parseInt(SubSeq(expiryOption, 1, Len(expiryOption) - 1))
       IN  Some(PlusSeconds(t, value * 60 * 60))

calculateExpiry(expiryOption, t) ==
  IF expiryOption = <<"n","e","v","e","r">> THEN NULL
  ELSE IF ~MatchExpiry(expiryOption) THEN NULL
  ELSE LET value == parseInt(SubSeq(expiryOption, 1, Len(expiryOption) - 1))
           unit == expiryOption[Len(expiryOption)]
       IN  IF unit = "h" THEN Some(PlusSeconds(t, value * 60 * 60))
           ELSE IF unit = "d" THEN Some(PlusSeconds(t, value * 24 * 60 * 60))
           ELSE NULL

\* the decimal numeral of n
RECURSIVE Decimal(_)
Decimal(n) ==
  LET last == CHOOSE ch \in Digits : DigitValue(ch) = n % 10
  IN  IF n < 10 THEN <<last>> ELSE Append(Decimal(n \div 10), last)

Pads == {<<>>, <<"0">>}

\* the values of the dialog's <SelectItem>s
OfferedOptions ==
  {<<"n","e","v","e","r">>, <<"1","h">>, <<"6","h">>, <<"2","4","h">>,
   <<"7","d">>, <<"3","0","d">>}

OtherOptions ==
  {<<>>, <<"h">>, <<"d">>, <<"1","2">>, <<"1","w">>, <<"1","H">>,
   <<" ","1","h">>, <<"1","h"," ">>, <<"1",".","5","h">>, <<"-","1","h">>,
   <<"h","1">>, <<"1","h","d">>, <<"1","d","h">>, <<"n","e","v","e","r","h">>}

ExpiryInputs ==
  OfferedOptions \cup OtherOptions \cup
  {pad \o Decimal(n) \o <<u>> :
     pad \in Pads, n \in 0..MaxCount, u \in {"h", "d"}}

otherThanExpiry == <<joinVars, commentVars, roomVars, codeVars, orderVars,
                     composeVars, createVars,
    loadVars>>

InitExpiry ==
  /\ now = 0
  /\ rooms = {RoomA, RoomB}
  /\ bans = InitBans
  /\ lsSession = NULL
  /\ lsOwner = [c \in RouteCodes |-> NULL]
  /\ route = NULL
  /\ open = FALSE
  /\ roomCode = <<>>
  /\ displayName = <<>>
  /\ password = <<>>
  /\ isJoining = FALSE
  /\ step = "code"
  /\ roomInfo = NULL
  /\ req = NoReq
  /\ session = NULL
  /\ sessionLoading = TRUE
  /\ joinName = <<>>
  /\ flatComments = <<>>
  /\ organized = NULL
  /\ dbPosts = <<>>
  /\ dbComments = <<>>
  /\ clientPosts = <<>>
  /\ events = <<>>
  /\ loads = <<>>
  /\ isOwner = <<>>
  /\ genRandom = <<>>
  /\ genCode = <<>>
  /\ genI = 0
  /\ pagePosts = <<>>
  /\ rendered = NULL
  /\ pcVariant = "quill"
  /\ pcContent = <<>>
  /\ pcFiles = <<>>
  /\ pcIsPosting = FALSE
  /\ pcRun = <<>>
  /\ mediaBucket = <<>>
  /\ dbUploads = <<>>
  /\ postCreated = 0
  /\ ccContent = <<>>
  /\ ccIsPosting = FALSE
  /\ ccRun = <<>>
  /\ commentCreated = 0
  /\ crTitle = <<>>
  /\ crIsCreating = <<>>
  /\ crCreatedRoom = <<>>
  /\ crRun = <<>>
  /\ crStore = <<>>
  /\ expOption \in ExpiryInputs
  /\ expNow \in Instants
  /\ expPc = "idle"
  /\ expiryAt = NULL
  /\ expStoredAt = NULL
  /\ staleLoads = <<>>

\* const expiryAt = calculateExpiry(expiry)
ApplyCalculateExpiry ==
  /\ expPc = "idle"
  /\ expiryAt' = calculateExpiry(expOption, expNow)
  /\ expPc' = "computed"
  /\ UNCHANGED <<expOption, expNow, expStoredAt>>
  /\ UNCHANGED otherThanExpiry

\* expiry_at: expiryAt?.toISOString() || null in the inserted row; the ISO
\* string carries the Date's seconds and milliseconds
StoreExpiry ==
  /\ expPc = "computed"
  /\ expStoredAt' = IF expiryAt = NULL THEN NULL
                    ELSE Some([s |-> Val(expiryAt).s, ms |-> Val(expiryAt).ms])
  /\ expPc' = "stored"
  /\ UNCHANGED <<expOption, expNow, expiryAt>>
  /\ UNCHANGED otherThanExpiry

NextExpiry ==
  \/ ApplyCalculateExpiry
  \/ StoreExpiry

SpecExpiry == InitExpiry /\ [][NextExpiry]_vars

Later(a, b) == a.s > b.s \/ (a.s = b.s /\ a.ms > b.ms)

IsDurationForm(option) ==
  \E pad \in Pads : \E n \in 0..MaxCount : \E u \in {"h", "d"} :
    option = pad \o Decimal(n) \o <<u>>

\* C21: calculateExpiry gives no expiry for 'never' and for an option that is
\* not digits followed by h or d; for '<n>h' it gives now + n*3600000 ms
\* (n*3600 s) and for '<n>d' now + n*86400000 ms (n*86400 s); for each
\* duration the dialog offers the stored expiry_at is strictly later than
\* now; '24h' gives the instant '1d' gives.
C21_ExpiryArithmetic ==
  expPc # "idle" =>
    /\ ~IsDurationForm(expOption) => expiryAt = NULL
    /\ \A pad \in Pads : \A n \in 0..MaxCount :
         /\ expOption = pad \o Decimal(n) \o <<"h">>
              => expiryAt = Some([s |-> expNow.s + n * 3600, ms |-> expNow.ms])
         /\ expOption = pad \o Decimal(n) \o <<"d">>
              => expiryAt = Some([s |-> expNow.s + n * 86400, ms |-> expNow.ms])
    /\ expPc = "stored" /\ expOption \in OfferedOptions
         /\ expOption # <<"n","e","v","e","r">>
         => expStoredAt # NULL /\ Later(Val(expStoredAt), expNow)
    /\ expOption = <<"2","4","h">>
         => expiryAt = calculateExpiry(<<"1","d">>, expNow)

\* 30 days from an instant with milliseconds has been stored
C21_Witness_ThirtyDaysStored ==
  /\ expPc = "stored"
  /\ expOption = <<"3","0","d">>
  /\ expNow.ms = 999
  /\ expStoredAt = Some([s |-> expNow.s + 2592000, ms |-> 999])

\* ------------------------------------------------ join modal and room page
RoomInfoOf(code) ==
  LET roomData == RoomByCode(code)
  IN  IF roomData = NULL THEN NULL
      ELSE Some([title |-> Val(roomData).title,
                 description |-> Val(roomData).description,
                 requiresPassword |-> Val(roomData).password_hash # NULL])

\* C24: while the open join modal is in step 'details', roomInfo is the
\* title, description and requiresPassword of the room whose code is in the
\* room-code field.
C24_RoomInfoMatchesCode ==
  open /\ step = "details"
    => roomInfo # NULL /\ roomInfo = RoomInfoOf(roomCode)

\* C25: on the room page a session that is set belongs to the room of the
\* route: blacksite_session was written for the route's room code, and
\* session.isOwner tells whether blacksite_owner_<that code> is present.
C25_SessionOfCurrentRoom ==
  route # NULL /\ session # NULL =>
    /\ lsSession # NULL
    /\ Val(lsSession).roomCode = Val(route)
    /\ Val(session).isOwner = (lsOwner[Val(route)] # NULL)

====
